---------------------------- MODULE Spec2Model ----------------------------
(***************************************************************************)
(* Savant sample analytics: the line-crossing tracker, the idle, crowd     *)
(* and speed trackers (samples/traffic_meter/utils.py), the traffic-meter  *)
(* analytics plugin (samples/traffic_meter/line_crossing.py) and the       *)
(* people-counting overlay filter (samples/people_counting/overlay.py).    *)
(*                                                                         *)
(* Python dictionaries are functions whose DOMAIN is the set of keys, a    *)
(* deque or list is a sequence, None is the string "None".  A point is a   *)
(* pair <<x, y>> of integers.                                              *)
(***************************************************************************)
EXTENDS Integers, Sequences, FiniteSets, TLC

----------------------------------------------------------------------------
(* Dictionaries *)

EmptyMap == << >>

Put(f, k, v) == [x \in (DOMAIN f) \cup {k} |-> IF x = k THEN v ELSE f[x]]

Del(f, k) == [x \in (DOMAIN f) \ {k} |-> f[x]]

Abs(n) == IF n < 0 THEN -n ELSE n

Min2(a, b) == IF a <= b THEN a ELSE b

Max2(a, b) == IF a >= b THEN a ELSE b

----------------------------------------------------------------------------
(* The geometry library (savant_rs PolygonalArea, Segment): an area is a   *)
(* closed polygon given by its vertices, edge i joining vertex i and the   *)
(* next vertex (cyclically) and carrying tag i.                            *)

PolygonalArea(vertices, tags) == [vertices |-> vertices, tags |-> tags]

EdgeBegin(area, i) == area.vertices[i]

EdgeEnd(area, i) == area.vertices[(i % Len(area.vertices)) + 1]

\* z component of (a - o) x (b - o)
CrossZ(o, a, b) == (a[1] - o[1]) * (b[2] - o[2]) - (a[2] - o[2]) * (b[1] - o[1])

OnSegment(a, b, p) ==
    /\ CrossZ(a, b, p) = 0
    /\ Min2(a[1], b[1]) <= p[1] /\ p[1] <= Max2(a[1], b[1])
    /\ Min2(a[2], b[2]) <= p[2] /\ p[2] <= Max2(a[2], b[2])

\* segment p-q and segment a-b have a point in common
SegmentsIntersect(p, q, a, b) ==
    LET d1 == CrossZ(a, b, p)
        d2 == CrossZ(a, b, q)
        d3 == CrossZ(p, q, a)
        d4 == CrossZ(p, q, b)
    IN  \/ /\ ((d1 > 0 /\ d2 < 0) \/ (d1 < 0 /\ d2 > 0))
           /\ ((d3 > 0 /\ d4 < 0) \/ (d3 < 0 /\ d4 > 0))
        \/ OnSegment(a, b, p)
        \/ OnSegment(a, b, q)
        \/ OnSegment(p, q, a)
        \/ OnSegment(p, q, b)

\* how far along p-q the segment meets the line through a-b, as a fraction
\* <<numerator, denominator>> of the segment's length
HitParam(p, q, a, b) ==
    LET d1 == Abs(CrossZ(a, b, p))
        d2 == Abs(CrossZ(a, b, q))
    IN  IF d1 + d2 = 0 THEN <<0, 1>> ELSE <<d1, d1 + d2>>

HitBefore(area, p, q, i, j) ==
    LET ki == HitParam(p, q, EdgeBegin(area, i), EdgeEnd(area, i))
        kj == HitParam(p, q, EdgeBegin(area, j), EdgeEnd(area, j))
    IN  \/ ki[1] * kj[2] < kj[1] * ki[2]
        \/ (ki[1] * kj[2] = kj[1] * ki[2] /\ i <= j)

RECURSIVE EdgesInOrder(_, _, _, _)
EdgesInOrder(area, p, q, S) ==
    IF S = {} THEN << >>
    ELSE LET m == CHOOSE e \in S : \A f \in S : HitBefore(area, p, q, e, f)
         IN  <<m>> \o EdgesInOrder(area, p, q, S \ {m})

OnBoundary(area, p) ==
    \E i \in 1..Len(area.vertices) : OnSegment(EdgeBegin(area, i), EdgeEnd(area, i), p)

\* the edges a horizontal ray from p towards +x crosses
RayEdges(area, p) ==
    {i \in 1..Len(area.vertices) :
        LET a == EdgeBegin(area, i)
            b == EdgeEnd(area, i)
            dy == b[2] - a[2]
            lhs == (b[1] - a[1]) * (p[2] - a[2]) + (a[1] - p[1]) * dy
        IN  /\ (a[2] > p[2]) # (b[2] > p[2])
            /\ IF dy > 0 THEN lhs > 0 ELSE lhs < 0}

AreaContains(area, p) ==
    ~OnBoundary(area, p) /\ Cardinality(RayEdges(area, p)) % 2 = 1

\* one segment's result of PolygonalArea.crossed_by_segments
crossed_by_segment(area, seg) ==
    LET p == seg[1]
        q == seg[2]
        hit == {i \in 1..Len(area.vertices) :
                   SegmentsIntersect(p, q, EdgeBegin(area, i), EdgeEnd(area, i))}
        order == EdgesInOrder(area, p, q, hit)
        edges == [k \in 1..Len(order) |-> <<order[k] - 1, area.tags[order[k]]>>]
        cp == AreaContains(area, p)
        cq == AreaContains(area, q)
        kind == IF cp /\ cq THEN "Inside"
                ELSE IF cp THEN "Leave"
                ELSE IF cq THEN "Enter"
                ELSE IF hit = {} THEN "Outside" ELSE "Cross"
    IN  [kind |-> kind, edges |-> edges]


\* a closed polygon crosses itself when two edges that are not neighbours meet
is_self_intersecting(area) ==
    LET n == Len(area.vertices)
    IN  \E i, j \in 1..n :
            /\ i < j
            /\ j # i + 1
            /\ ~(i = 1 /\ j = n)
            /\ SegmentsIntersect(EdgeBegin(area, i), EdgeEnd(area, i),
                                 EdgeBegin(area, j), EdgeEnd(area, j))

----------------------------------------------------------------------------
(* Configuration: the line-crossing config and the calibration config read *)
(* by LineCrossing.__init__, as {source_id: ...} documents.                *)

\* lines "from" = (0,0)-(10,0) and "to" = (0,10)-(10,10) for source cam1; the
\* same lines for source cam3, its "to" line given from right to left
line_config ==
    [cam1 |-> [from |-> <<0, 0, 10, 0>>, to |-> <<0, 10, 10, 10>>],
     cam3 |-> [from |-> <<0, 0, 10, 0>>, to |-> <<10, 10, 0, 10>>]]

\* calibration of cam1: the region of interest and the speed area are the
\* rectangle (-10,-10)-(20,20), which is 30 m wide and 30 m high
calib_config ==
    [cam1 |-> [crowd |-> [crowd_area |-> <<-10, -10, 20, -10, 20, 20, -10, 20>>,
                          crowd_threshold |-> 2],
               speed |-> [speed_area |-> <<-10, -10, 20, -10, 20, 20, -10, 20>>,
                          speed_area_real_width |-> 30,
                          speed_area_real_height |-> 30]]]

\* plugin parameters
target_obj_labels == {"person"}

stale_track_del_period == 2

idle_tracker_buffer == 900

idle_distance_threshold == 15

EdgeTags == <<"from", "None", "to", "None">>

\* the area of one configured source, from the A,B,D,C order alone
BuildArea_first_order(line_cfg) ==
    PolygonalArea(<<<<line_cfg.from[1], line_cfg.from[2]>>,
                    <<line_cfg.from[3], line_cfg.from[4]>>,
                    <<line_cfg.to[3], line_cfg.to[4]>>,
                    <<line_cfg.to[1], line_cfg.to[2]>>>>, EdgeTags)

\* the area of one configured source: "exit" stands for sys.exit(1)
BuildArea(line_cfg) ==
    LET pt_A == <<line_cfg.from[1], line_cfg.from[2]>>
        pt_B == <<line_cfg.from[3], line_cfg.from[4]>>
        pt_C == <<line_cfg.to[1], line_cfg.to[2]>>
        pt_D == <<line_cfg.to[3], line_cfg.to[4]>>
        first == PolygonalArea(<<pt_A, pt_B, pt_D, pt_C>>, EdgeTags)
        second == PolygonalArea(<<pt_A, pt_B, pt_C, pt_D>>, EdgeTags)
    IN  IF ~is_self_intersecting(first) THEN first
        ELSE IF ~is_self_intersecting(second) THEN second
        ELSE "exit"

areas == [s \in DOMAIN line_config |-> BuildArea(line_config[s])]

\* both vertex orders of the lines cross themselves: __init__ ends in
\* sys.exit(1)
InitExits(line_cfg) ==
    LET pt_A == <<line_cfg.from[1], line_cfg.from[2]>>
        pt_B == <<line_cfg.from[3], line_cfg.from[4]>>
        pt_C == <<line_cfg.to[1], line_cfg.to[2]>>
        pt_D == <<line_cfg.to[3], line_cfg.to[4]>>
    IN  /\ is_self_intersecting(PolygonalArea(<<pt_A, pt_B, pt_D, pt_C>>, EdgeTags))
        /\ is_self_intersecting(PolygonalArea(<<pt_A, pt_B, pt_C, pt_D>>, EdgeTags))

\* LineCrossing.__init__ on a line config of one source: the exit status of
\* the process and the areas it stored
LoadAreas(source_id, line_cfg) ==
    IF InitExits(line_cfg)
    THEN [exit_status |-> 1, areas |-> EmptyMap]
    ELSE [exit_status |-> 0, areas |-> Put(EmptyMap, source_id, BuildArea(line_cfg))]

\* positions fed to a tracker on its own: below the "from" line, two inside
\* the area, above the "to" line, left of the unlabeled edge
TrackerPoints == {<<5, -5>>, <<5, 5>>, <<5, 6>>, <<5, 15>>, <<-5, 4>>}

\* the library's answers for the segments the model can form, computed once
CrossTable ==
    [area \in {areas[s] : s \in DOMAIN areas}, seg \in TrackerPoints \X TrackerPoints |->
        crossed_by_segment(area, seg)]

crossed_by_segments(area, segments) ==
    [k \in 1..Len(segments) |->
        IF <<area, segments[k]>> \in DOMAIN CrossTable
        THEN CrossTable[area, segments[k]]
        ELSE crossed_by_segment(area, segments[k])]

----------------------------------------------------------------------------
(* TwoLinesCrossingTracker *)

TwoLinesCrossingTracker(area) ==
    [area |-> area, prev_cross_edge_label |-> EmptyMap, track_last_points |-> EmptyMap]

remove_track(tr, track_id) ==
    IF track_id \in DOMAIN tr.track_last_points
    THEN [tr EXCEPT !.track_last_points = Del(@, track_id)]
    ELSE tr

\* an append that drops the newer point of a full window
Append2_keeping_oldest(dq, point) ==
    IF Len(dq) = 2 THEN <<dq[1], point>> ELSE Append(dq, point)

\* deque(maxlen=2).append
Append2(dq, point) == IF Len(dq) = 2 THEN <<dq[2], point>> ELSE Append(dq, point)

add_track_point(tr, track_id, point) ==
    LET dq == IF track_id \in DOMAIN tr.track_last_points
              THEN tr.track_last_points[track_id] ELSE << >>
    IN  [tr EXCEPT !.track_last_points = Put(@, track_id, Append2(dq, point))]

\* the defaultdict lookups of the first loop leave an empty window behind
\* for every track id that had none
TouchPoints(pts, track_ids) ==
    [t \in (DOMAIN pts) \cup {track_ids[i] : i \in 1..Len(track_ids)} |->
        IF t \in DOMAIN pts THEN pts[t] ELSE << >>]

RECURSIVE CheckTrackIdxs(_, _, _)
CheckTrackIdxs(pts, track_ids, i) ==
    IF i > Len(track_ids) THEN << >>
    ELSE (IF Len(pts[track_ids[i]]) = 2 THEN <<i>> ELSE << >>)
         \o CheckTrackIdxs(pts, track_ids, i + 1)

\* (mutant) the unlabeled edges left out
EdgeLabels_labelled(cross_result) ==
    LET labelled(edge) == edge[2] # "None"
        edges == SelectSeq(cross_result.edges, labelled)
    IN  [k \in 1..Len(edges) |-> edges[k][2]]

EdgeLabels(cross_result) ==
    [k \in 1..Len(cross_result.edges) |-> cross_result.edges[k][2]]

NotNone(label) == label # "None"

\* (mutant) the two directions exchanged
LabelsDirection_swapped(cross_edge_labels) ==
    IF cross_edge_labels = <<"from", "to">> THEN "exit"
    ELSE IF cross_edge_labels = <<"to", "from">> THEN "entry"
    ELSE "None"

\* the direction a label sequence stands for
LabelsDirection(cross_edge_labels) ==
    IF cross_edge_labels = <<"from", "to">> THEN "entry"
    ELSE IF cross_edge_labels = <<"to", "from">> THEN "exit"
    ELSE "None"

\* (mutant) the remembered labels put behind the labels of the leaving
LeaveLabels_appended(prev, track_id, cross_edge_labels) ==
    IF track_id \in DOMAIN prev
    THEN cross_edge_labels \o prev[track_id]
    ELSE cross_edge_labels

\* the labels compared for a Leave result
LeaveLabels(prev, track_id, cross_edge_labels) ==
    IF track_id \in DOMAIN prev
    THEN prev[track_id] \o cross_edge_labels
    ELSE cross_edge_labels

\* (mutant) the remembered labels consulted for every kind that gets this far
UsedLabels_always(kind, prev, track_id, cross_edge_labels) ==
    LeaveLabels(prev, track_id, cross_edge_labels)

\* the labels compared for a result that is neither Inside, Outside nor Enter
UsedLabels(kind, prev, track_id, cross_edge_labels) ==
    IF kind = "Leave"
    THEN LeaveLabels(prev, track_id, cross_edge_labels)
    ELSE cross_edge_labels

\* the second loop of check_tracks, from its k-th (result, index) pair on;
\* st = [prev |-> ..., ret |-> ...]
RECURSIVE CheckLoop(_, _, _, _, _)
CheckLoop(st, cross_results, check_track_idxs, track_ids, k) ==
    IF k > Len(check_track_idxs) THEN st
    ELSE
      LET cross_result == cross_results[k]
          track_idx == check_track_idxs[k]
          track_id == track_ids[track_idx]
          cross_edge_labels == EdgeLabels(cross_result)
          used == UsedLabels(cross_result.kind, st.prev, track_id, cross_edge_labels)
          direction == LabelsDirection(SelectSeq(used, NotNone))
          next == IF cross_result.kind \in {"Inside", "Outside"} THEN st
                  ELSE IF cross_result.kind = "Enter"
                  THEN [st EXCEPT !.prev = Put(@, track_id, cross_edge_labels)]
                  ELSE IF direction # "None"
                  THEN [st EXCEPT !.ret[track_idx] = direction]
                  ELSE st
      IN  CheckLoop(next, cross_results, check_track_idxs, track_ids, k + 1)

\* check_tracks: [tr |-> the tracker afterwards, ret |-> the returned list]
check_tracks(tr, track_ids) ==
    LET pts == TouchPoints(tr.track_last_points, track_ids)
        check_track_idxs == CheckTrackIdxs(pts, track_ids, 1)
        segments == [k \in 1..Len(check_track_idxs) |->
                        pts[track_ids[check_track_idxs[k]]]]
        cross_results == crossed_by_segments(tr.area, segments)
        st == CheckLoop([prev |-> tr.prev_cross_edge_label,
                         ret |-> [i \in 1..Len(track_ids) |-> "None"]],
                        cross_results, check_track_idxs, track_ids, 1)
    IN  [tr |-> [tr EXCEPT !.track_last_points = pts,
                           !.prev_cross_edge_label = st.prev],
         ret |-> st.ret]

----------------------------------------------------------------------------
(* Point-in-polygon test and the idle, crowd and speed trackers *)

GetD(f, k, d) == IF k \in DOMAIN f THEN f[k] ELSE d

\* np.array(flat).reshape((-1, 2))
Reshape2(flat) == [i \in 1..(Len(flat) \div 2) |-> <<flat[2 * i - 1], flat[2 * i]>>]

\* the while loop of is_inside_postgis from index jj (0-based, as in the
\* code) on; 2: the point is on an edge, else 1 or 0 for intersections != 0
RECURSIVE PostgisLoop(_, _, _, _, _, _)
PostgisLoop(polygon, point, jj, dx2_in, dy2_in, intersections) ==
    IF ~(jj < Len(polygon)) THEN (IF intersections # 0 THEN 1 ELSE 0)
    ELSE
      LET dx == dx2_in
          dy == dy2_in
          dx2 == point[1] - polygon[jj + 1][1]
          dy2 == point[2] - polygon[jj + 1][2]
          F == (dx - dx2) * dy - dx * (dy - dy2)
          crossing == (dy >= 0 /\ dy2 < 0) \/ (dy2 >= 0 /\ dy < 0)
          step == IF crossing /\ F > 0 THEN 1
                  ELSE IF crossing /\ F < 0 THEN -1
                  ELSE 0
      IN  IF F = 0 /\ dx * dx2 <= 0 /\ dy * dy2 <= 0 THEN 2
          ELSE PostgisLoop(polygon, point, jj + 1, dx2, dy2, intersections + step)

is_inside_postgis(polygon, point) ==
    PostgisLoop(polygon, point, 1,
                point[1] - polygon[1][1], point[2] - polygon[1][2], 0)

\* the boolean array D
is_inside_postgis_parallel(points, polygon) ==
    [i \in 1..Len(points) |-> is_inside_postgis(polygon, points[i]) # 0]

\* deque(maxlen=n).append
AppendMax(dq, v, n) == IF Len(dq) >= n THEN Tail(dq) \o <<v>> ELSE Append(dq, v)

\* the square of calculate_distance
Distance2(c1, c2) == (c2[1] - c1[1]) * (c2[1] - c1[1]) + (c2[2] - c1[2]) * (c2[2] - c1[2])

IdleObjectTracker(buffer, threshold) ==
    [history |-> EmptyMap,
     idle_tracker_buffer |-> buffer,
     idle_distance_threshold |-> threshold]

idle_update(it, track_id, object_coordinates) ==
    [it EXCEPT !.history =
        Put(@, track_id,
            AppendMax(GetD(@, track_id, << >>), object_coordinates, it.idle_tracker_buffer))]

idle_remove_track(it, track_id) ==
    IF track_id \in DOMAIN it.history THEN [it EXCEPT !.history = Del(@, track_id)] ELSE it

check_idle_strict(it, track_ids) ==
    [track_idx \in 1..Len(track_ids) |->
        IF track_ids[track_idx] \in DOMAIN it.history
        THEN LET object_history == it.history[track_ids[track_idx]]
                 is_idle == \A k \in 2..Len(object_history) :
                               Distance2(object_history[1], object_history[k])
                                   < it.idle_distance_threshold * it.idle_distance_threshold
             IN  IF is_idle THEN "idle" ELSE "moving"
        ELSE "moving"]

check_idle(it, track_ids) ==
    [track_idx \in 1..Len(track_ids) |->
        IF track_ids[track_idx] \in DOMAIN it.history
        THEN LET object_history == it.history[track_ids[track_idx]]
                 is_idle == \A k \in 2..Len(object_history) :
                               Distance2(object_history[1], object_history[k])
                                   <= it.idle_distance_threshold * it.idle_distance_threshold
             IN  IF is_idle THEN "idle" ELSE "moving"
        ELSE "moving"]

CrowdTracker(crowd_area) ==
    [crowd_area |-> Reshape2(crowd_area), people_coordinates |-> << >>]

crowd_update(ct, point) == [ct EXCEPT !.people_coordinates = Append(@, point)]

\* sum(counts)
RECURSIVE CountTrue(_)
CountTrue(flags) ==
    IF flags = << >> THEN 0
    ELSE (IF Head(flags) THEN 1 ELSE 0) + CountTrue(Tail(flags))

\* check_crowd: [ct |-> the tracker afterwards, is_crowded |-> the result]
check_crowd_strict(ct, threshold) ==
    LET count == IF Len(ct.people_coordinates) > 0
                 THEN CountTrue(is_inside_postgis_parallel(ct.people_coordinates,
                                                           ct.crowd_area))
                 ELSE 0
    IN  [ct |-> [ct EXCEPT !.people_coordinates = << >>],
         is_crowded |-> count > threshold]

check_crowd_keeping(ct, threshold) ==
    LET count == IF Len(ct.people_coordinates) > 0
                 THEN CountTrue(is_inside_postgis_parallel(ct.people_coordinates,
                                                           ct.crowd_area))
                 ELSE 0
    IN  [ct |-> ct, is_crowded |-> count >= threshold]

\* check_crowd that leaves the last point in the list
check_crowd_keeping_last(ct, threshold) ==
    LET count == IF Len(ct.people_coordinates) > 0
                 THEN CountTrue(is_inside_postgis_parallel(ct.people_coordinates,
                                                           ct.crowd_area))
                 ELSE 0
    IN  [ct |-> [ct EXCEPT !.people_coordinates =
                    IF @ = << >> THEN @ ELSE <<@[Len(@)]>>],
         is_crowded |-> count >= threshold]

check_crowd(ct, threshold) ==
    LET count == IF Len(ct.people_coordinates) > 0
                 THEN CountTrue(is_inside_postgis_parallel(ct.people_coordinates,
                                                           ct.crowd_area))
                 ELSE 0
    IN  [ct |-> [ct EXCEPT !.people_coordinates = << >>],
         is_crowded |-> count >= threshold]

RECURSIVE GCD(_, _)
GCD(a, b) == IF b = 0 THEN a ELSE GCD(b, a % b)

\* a power of two whose square exceeds n
RECURSIVE SqrtUpper(_, _)
SqrtUpper(n, r) == IF r * r > n THEN r ELSE SqrtUpper(n, 2 * r)

\* the largest r with r * r <= n, by bisection of lo..(hi - 1)
RECURSIVE ISqrtIn(_, _, _)
ISqrtIn(n, lo, hi) ==
    IF hi - lo <= 1 THEN lo
    ELSE LET mid == (lo + hi) \div 2
         IN  IF mid * mid <= n THEN ISqrtIn(n, mid, hi) ELSE ISqrtIn(n, lo, mid)

\* the integer part of the square root (the ** 0.5 of calculate_distance)
ISqrt(n) == ISqrtIn(n, 0, SqrtUpper(n, 1))

\* width of the rectified plane (self.dst_w)
dst_w == 500

\* maxlen of a speed history
SpeedHistoryLen == 1000

\* cv2.getPerspectiveTransform for a speed area that is an axis-parallel
\* rectangle given from its top-left corner clockwise: the map is the
\* scaling x -> (x - x0) * dst_w / width, y -> (y - y0) * dst_h / height,
\* kept as the fractions sx = M.sx[1] / M.sx[2], sy = M.sy[1] / M.sy[2]
RectTransform(src_points, w, h) ==
    LET width == src_points[2][1] - src_points[1][1]
        height == src_points[3][2] - src_points[2][2]
        gx == GCD(w, width)
        gy == GCD(h, height)
    IN  [x0 |-> src_points[1][1], y0 |-> src_points[1][2],
         sx |-> <<w \div gx, width \div gx>>,
         sy |-> <<h \div gy, height \div gy>>]

SpeedEstimator(speed_area, speed_area_real_width, speed_area_real_height) ==
    LET dst_h == (speed_area_real_height * dst_w) \div speed_area_real_width
        g == GCD(dst_w, speed_area_real_width)
    IN  [speed_area_real_width |-> speed_area_real_width,
         speed_area_real_height |-> speed_area_real_height,
         dst_h |-> dst_h,
         \* pixels_per_m as the fraction [1] / [2]
         pixels_per_m |-> <<dst_w \div g, speed_area_real_width \div g>>,
         M |-> RectTransform(Reshape2(speed_area), dst_w, dst_h),
         history |-> EmptyMap]

speed_update(se, track_id, object_coordinates, timestamp) ==
    [se EXCEPT !.history =
        Put(@, track_id,
            AppendMax(GetD(@, track_id, << >>),
                      <<object_coordinates[1], object_coordinates[2], timestamp>>,
                      SpeedHistoryLen))]

speed_remove_track(se, track_id) ==
    IF track_id \in DOMAIN se.history THEN [se EXCEPT !.history = Del(@, track_id)] ELSE se

\* what LineSpeed gives when int() raises (int of inf or nan)
Raises == -1

\* int(real_distance / time) for the line from the first to the last sample:
\* the rectified distance is sqrt(ax^2 + ay^2) / d pixels, its length in
\* meters that divided by pixels_per_m; the division by a time of 0 gives inf
\* or nan, on which int() raises
LineSpeed_rounded(se, first, last) ==
    LET time == Abs(last[3] - first[3])
        ax == (last[1] - first[1]) * se.M.sx[1] * se.M.sy[2]
        ay == (last[2] - first[2]) * se.M.sy[1] * se.M.sx[2]
        d == se.M.sx[2] * se.M.sy[2]
        num == se.pixels_per_m[2]
        den == se.pixels_per_m[1] * d
        g == GCD(num, den)
    IN  IF time = 0 THEN Raises
        ELSE (2 * ISqrt((num \div g) * (num \div g) * (ax * ax + ay * ay))
                  + (den \div g) * time)
                 \div (2 * (den \div g) * time)

LineSpeed(se, first, last) ==
    LET time == Abs(last[3] - first[3])
        ax == (last[1] - first[1]) * se.M.sx[1] * se.M.sy[2]
        ay == (last[2] - first[2]) * se.M.sy[1] * se.M.sx[2]
        d == se.M.sx[2] * se.M.sy[2]
        num == se.pixels_per_m[2]
        den == se.pixels_per_m[1] * d
        g == GCD(num, den)
    IN  IF time = 0 THEN Raises
        ELSE ISqrt((num \div g) * (num \div g) * (ax * ax + ay * ay))
                 \div ((den \div g) * time)

HasLine(se, track_id) ==
    track_id \in DOMAIN se.history /\ Len(se.history[track_id]) > 1

\* the lines and times lists: the track ids that contribute a line, in order
RECURSIVE LineTracks(_, _)
LineTracks(se, track_ids) ==
    IF track_ids = << >> THEN << >>
    ELSE (IF HasLine(se, Head(track_ids)) THEN <<Head(track_ids)>> ELSE << >>)
         \o LineTracks(se, Tail(track_ids))

\* the position of results that receives the speed of the i-th line
ResultIndex(i, track_ids, lines) == i

\* estimate: [raised |-> int() raised, results |-> the returned list]
estimate(se, track_ids) ==
    LET lines == LineTracks(se, track_ids)
        speeds == [i \in 1..Len(lines) |->
                      LET object_history == se.history[lines[i]]
                      IN  LineSpeed(se, object_history[1],
                                    object_history[Len(object_history)])]
    IN  [raised |-> \E i \in 1..Len(lines) : speeds[i] = Raises,
         results |-> [k \in 1..Len(track_ids) |->
                        IF \E i \in 1..Len(lines) : ResultIndex(i, track_ids, lines) = k
                        THEN speeds[CHOOSE i \in 1..Len(lines) :
                                        ResultIndex(i, track_ids, lines) = k]
                        ELSE 0]]

----------------------------------------------------------------------------
(* LineCrossing: the traffic-meter analytics plugin *)

LineCrossing ==
    [lc_trackers |-> EmptyMap, track_last_frame_num |-> EmptyMap,
     entry_count |-> EmptyMap, exit_count |-> EmptyMap, cross_events |-> EmptyMap,
     idle_trackers |-> EmptyMap, crowd_trackers |-> EmptyMap,
     speed_estimators |-> EmptyMap]

\* if key in d: del d[key]
DelIf(d, key) == IF key \in DOMAIN d THEN Del(d, key) ELSE d

on_source_eos_keeping_counts(self, source_id) ==
    [lc_trackers |-> DelIf(self.lc_trackers, source_id),
     track_last_frame_num |-> DelIf(self.track_last_frame_num, source_id),
     cross_events |-> DelIf(self.cross_events, source_id),
     entry_count |-> self.entry_count,
     exit_count |-> self.exit_count,
     idle_trackers |-> DelIf(self.idle_trackers, source_id),
     crowd_trackers |-> DelIf(self.crowd_trackers, source_id),
     speed_estimators |-> DelIf(self.speed_estimators, source_id)]

\* on_source_eos that leaves the last-seen map of the source
on_source_eos_keeping_last_seen(self, source_id) ==
    [lc_trackers |-> DelIf(self.lc_trackers, source_id),
     track_last_frame_num |-> self.track_last_frame_num,
     cross_events |-> DelIf(self.cross_events, source_id),
     entry_count |-> DelIf(self.entry_count, source_id),
     exit_count |-> DelIf(self.exit_count, source_id),
     idle_trackers |-> DelIf(self.idle_trackers, source_id),
     crowd_trackers |-> DelIf(self.crowd_trackers, source_id),
     speed_estimators |-> DelIf(self.speed_estimators, source_id)]

on_source_eos(self, source_id) ==
    [lc_trackers |-> DelIf(self.lc_trackers, source_id),
     track_last_frame_num |-> DelIf(self.track_last_frame_num, source_id),
     cross_events |-> DelIf(self.cross_events, source_id),
     entry_count |-> DelIf(self.entry_count, source_id),
     exit_count |-> DelIf(self.exit_count, source_id),
     idle_trackers |-> DelIf(self.idle_trackers, source_id),
     crowd_trackers |-> DelIf(self.crowd_trackers, source_id),
     speed_estimators |-> DelIf(self.speed_estimators, source_id)]

\* position of the first primary object of the list, 0 when there is none
PrimaryIndex_first(objects) == IF objects = << >> THEN 0 ELSE 1

PrimaryIndex(objects) ==
    IF \E i \in 1..Len(objects) : objects[i].is_primary
    THEN CHOOSE i \in 1..Len(objects) :
             objects[i].is_primary /\ \A j \in 1..(i - 1) : ~objects[j].is_primary
    ELSE 0

\* frame_meta.remove_obj_meta of the object at position i
RemoveObj(objects, i) ==
    [k \in 1..(Len(objects) - 1) |-> IF k < i THEN objects[k] ELSE objects[k + 1]]

\* ConditionalDetectorSkip.process_frame removing for the configured sources
SkipFrame_configured(objects, source_id) ==
    IF PrimaryIndex(objects) # 0 /\ source_id \in DOMAIN line_config
    THEN RemoveObj(objects, PrimaryIndex(objects))
    ELSE objects

\* ConditionalDetectorSkip.process_frame: the frame's objects after the call
SkipFrame(objects, source_id) ==
    IF PrimaryIndex(objects) # 0 /\ source_id \notin DOMAIN line_config
    THEN RemoveObj(objects, PrimaryIndex(objects))
    ELSE objects

Centre(obj_meta) == <<obj_meta.xc, obj_meta.yc>>

\* the test without the class label
IsAccepted_any_label(obj_meta, crowd_area_2d) ==
    /\ ~obj_meta.is_primary
    /\ \A k \in {1} : is_inside_postgis_parallel(<<Centre(obj_meta)>>, crowd_area_2d)[k]

\* the test an object passes to be analysed
IsAccepted(obj_meta, crowd_area_2d) ==
    /\ obj_meta.label \in target_obj_labels
    /\ \A k \in {1} : is_inside_postgis_parallel(<<Centre(obj_meta)>>, crowd_area_2d)[k]

\* the loop over frame_meta.objects from position i on (i - 1 is the index
\* enumerate gives); acc holds the source's trackers, its last-seen map, and
\* the lists obj_metas and interested_object_idxs
RECURSIVE FeedObjects(_, _, _, _, _, _)
FeedObjects(acc, objects, i, frame_num, now, crowd_area_2d) ==
    IF i > Len(objects) THEN acc
    ELSE
      LET obj_meta == objects[i]
          fed == [lc_tracker |-> add_track_point(acc.lc_tracker, obj_meta.track_id,
                                                 Centre(obj_meta)),
                  idle_tracker |-> idle_update(acc.idle_tracker, obj_meta.track_id,
                                               Centre(obj_meta)),
                  crowd_tracker |-> crowd_update(acc.crowd_tracker, Centre(obj_meta)),
                  speed_estimator |-> speed_update(acc.speed_estimator, obj_meta.track_id,
                                                   Centre(obj_meta), now),
                  last_frames |-> Put(acc.last_frames, obj_meta.track_id, frame_num),
                  touched |-> TRUE,
                  obj_metas |-> Append(acc.obj_metas, obj_meta),
                  interested_object_idxs |-> Append(acc.interested_object_idxs, i - 1)]
      IN  FeedObjects(IF IsAccepted(obj_meta, crowd_area_2d) THEN fed ELSE acc,
                      objects, i + 1, frame_num, now, crowd_area_2d)

\* the counter a direction increments
CountsEntry_always(cross_direction) == TRUE

CountsEntry(cross_direction) == cross_direction = "entry"

\* an exit counter that counts nothing
CountsExit_never(cross_direction) == FALSE

CountsExit(cross_direction) == cross_direction = "exit"

\* the events appended to a track's log for the direction detected
NewEvents(cross_direction, pts) ==
    IF cross_direction # "None" THEN <<<<cross_direction, pts>>>> ELSE << >>

\* the events written as lc_tracker attributes of an object, whose log is
\* obj_events once this frame's event is appended
WrittenEvents_new(obj_events, cross_direction, pts) == NewEvents(cross_direction, pts)

WrittenEvents(obj_events, cross_direction, pts) == obj_events

\* the loop over zip(obj_metas, track_lines_crossings, speeds, idle_objects)
\* from position k on; acc holds the source's event logs, its two counters
\* (with whether the defaultdict has the key), the attributes added to each
\* object and idles_count
RECURSIVE EventLoop(_, _, _, _, _, _, _)
EventLoop(acc, obj_metas, track_lines_crossings, speeds, idle_objects, pts, k) ==
    IF k > Len(obj_metas) THEN acc
    ELSE
      LET track_id == obj_metas[k].track_id
          cross_direction == track_lines_crossings[k]
          obj_events == GetD(acc.events, track_id, << >>)
                            \o NewEvents(cross_direction, pts)
          hit == cross_direction # "None"
          next ==
            [events |-> Put(acc.events, track_id, obj_events),
             entry |-> IF hit /\ CountsEntry(cross_direction)
                       THEN [has |-> TRUE, n |-> acc.entry.n + 1] ELSE acc.entry,
             exit |-> IF hit /\ ~CountsEntry(cross_direction) /\ CountsExit(cross_direction)
                      THEN [has |-> TRUE, n |-> acc.exit.n + 1] ELSE acc.exit,
             attrs |-> Append(acc.attrs,
                              [lc_tracker |-> WrittenEvents(obj_events, cross_direction, pts),
                               speed |-> speeds[k],
                               idle_tracker |-> <<idle_objects[k], pts>>]),
             idles_count |-> acc.idles_count + (IF idle_objects[k] = "idle" THEN 1 ELSE 0)]
      IN  EventLoop(next, obj_metas, track_lines_crossings, speeds, idle_objects, pts, k + 1)

TrackIdsOf(obj_metas) == [k \in 1..Len(obj_metas) |-> obj_metas[k].track_id]

NoOutput ==
    [accepted |-> << >>, idxs |-> << >>, dirs |-> << >>, attrs |-> << >>,
     primary_attrs |-> [written |-> FALSE]]

\* the tracks the cleanup of this frame finds stale
StaleTracks_at_period(last_frames, frame_num) ==
    {track_id \in DOMAIN last_frames :
        frame_num - last_frames[track_id] >= stale_track_del_period}

StaleTracks(last_frames, frame_num) ==
    {track_id \in DOMAIN last_frames :
        frame_num - last_frames[track_id] > stale_track_del_period}

RECURSIVE RemoveTracks(_, _)
RemoveTracks(lc_tracker, to_delete) ==
    IF to_delete = {} THEN lc_tracker
    ELSE LET track_id == CHOOSE t \in to_delete : TRUE
         IN  RemoveTracks(remove_track(lc_tracker, track_id), to_delete \ {track_id})

\* a cleanup that runs every second period
IsCleanupFrame_twice_period(frame_num) == frame_num % (2 * stale_track_del_period) = 0

\* whether the cleanup runs on this frame
IsCleanupFrame(frame_num) == frame_num % stale_track_del_period = 0

\* "periodically remove stale tracks":
\* [self, removed |-> the tracks removed, raised |-> KeyError on lc_trackers]
Cleanup(self, source_id, frame_num) ==
    IF ~IsCleanupFrame(frame_num)
    THEN [self |-> self, removed |-> {}, raised |-> FALSE]
    ELSE
      LET last_frames == GetD(self.track_last_frame_num, source_id, EmptyMap)
          to_delete == StaleTracks(last_frames, frame_num)
          touched == [self EXCEPT !.track_last_frame_num = Put(@, source_id, last_frames)]
      IN  IF to_delete = {}
          THEN [self |-> touched, removed |-> {}, raised |-> FALSE]
          ELSE IF source_id \notin DOMAIN self.lc_trackers
          THEN [self |-> touched, removed |-> {}, raised |-> TRUE]
          ELSE [self |-> [touched EXCEPT
                            !.track_last_frame_num[source_id] =
                                [t \in (DOMAIN last_frames) \ to_delete |-> last_frames[t]],
                            !.lc_trackers[source_id] = RemoveTracks(@, to_delete)],
                removed |-> to_delete,
                raised |-> FALSE]

\* lines 218-247 and the result of the analytics: the state with the event
\* logs and counters written back, and the attributes put on the objects and
\* on the primary object (ev is what the event loop left, crowd what
\* check_crowd returned)
AnalyseAttrs(afterFeed, s, fed, ids, dirs, ev, crowd) ==
    [self |-> [afterFeed EXCEPT
                  !.cross_events = IF fed.obj_metas # << >> THEN Put(@, s, ev.events) ELSE @,
                  \* the reads of lines 237 and 240 create the counters
                  !.entry_count = Put(@, s, ev.entry.n),
                  !.exit_count = Put(@, s, ev.exit.n),
                  !.crowd_trackers = Put(@, s, crowd.ct)],
     out |-> [accepted |-> ids,
              idxs |-> fed.interested_object_idxs,
              dirs |-> dirs,
              attrs |-> ev.attrs,
              primary_attrs |->
                 [written |-> TRUE,
                  object_idxs |-> fed.interested_object_idxs,
                  is_crowded |-> IF crowd.is_crowded THEN 1 ELSE 0,
                  idles_n |-> ev.idles_count,
                  entries_n |-> ev.entry.n,
                  exits_n |-> ev.exit.n]],
     raised |-> "None"]

\* lines 197-215: the event loop over the accepted objects, given what the
\* three batch calls returned
AnalyseEvents(self, afterFeed, frame, fed, ids, checked, speeds, idle_objects) ==
    LET s == frame.source_id
        start == [events |-> GetD(self.cross_events, s, EmptyMap),
                  entry |-> [has |-> s \in DOMAIN self.entry_count,
                             n |-> GetD(self.entry_count, s, 0)],
                  exit |-> [has |-> s \in DOMAIN self.exit_count,
                            n |-> GetD(self.exit_count, s, 0)],
                  attrs |-> << >>,
                  idles_count |-> 0]
    IN  IF speeds.raised
        THEN [self |-> afterFeed,
              out |-> [NoOutput EXCEPT !.accepted = ids,
                                       !.idxs = fed.interested_object_idxs,
                                       !.dirs = checked.ret],
              raised |-> "int"]
        ELSE AnalyseAttrs(afterFeed, s, fed, ids, checked.ret,
                          EventLoop(start, fed.obj_metas, checked.ret, speeds.results,
                                    idle_objects, frame.pts, 1),
                          check_crowd(fed.crowd_tracker,
                                      calib_config[s].crowd.crowd_threshold))

\* the state once the objects are fed and the crossing tracker is checked
AfterFeed(self, s, fed, lc_tracker) ==
    [self EXCEPT !.lc_trackers = Put(@, s, lc_tracker),
                 !.idle_trackers = Put(@, s, fed.idle_tracker),
                 !.crowd_trackers = Put(@, s, fed.crowd_tracker),
                 !.speed_estimators = Put(@, s, fed.speed_estimator),
                 !.track_last_frame_num =
                     IF fed.touched THEN Put(@, s, fed.last_frames) ELSE @]

\* lines 184-196: the batch calls on the accepted objects, made only when
\* there is one (checked is what check_tracks gives)
AnalyseChecked(self, frame, fed, ids, checked) ==
    IF fed.obj_metas # << >>
    THEN AnalyseEvents(self, AfterFeed(self, frame.source_id, fed, checked.tr),
                       frame, fed, ids, checked,
                       estimate(fed.speed_estimator, ids),
                       check_idle(fed.idle_tracker, ids))
    ELSE AnalyseEvents(self, AfterFeed(self, frame.source_id, fed, fed.lc_tracker),
                       frame, fed, ids,
                       [tr |-> fed.lc_tracker, ret |-> << >>],
                       [raised |-> FALSE, results |-> << >>], << >>)

AnalyseTracks(self, frame, fed) ==
    AnalyseChecked(self, frame, fed, TrackIdsOf(fed.obj_metas),
                   check_tracks(fed.lc_tracker, TrackIdsOf(fed.obj_metas)))

\* lines 126-182 of the analytics of one frame of a source that has an area
\* and a primary object: the source's trackers are created when missing and
\* the objects fed to them.  The result is [self, out, raised |-> "None",
\* "KeyError" (no calibration for the source) or "int" (estimate raised)]
Analyse(self, frame, now) ==
    LET s == frame.source_id
        lc0 == GetD(self.lc_trackers, s, TwoLinesCrossingTracker(areas[s]))
        idle0 == GetD(self.idle_trackers, s,
                      IdleObjectTracker(idle_tracker_buffer, idle_distance_threshold))
    IN  IF s \notin DOMAIN calib_config
        THEN [self |-> [self EXCEPT !.lc_trackers = Put(@, s, lc0),
                                    !.idle_trackers = Put(@, s, idle0)],
              out |-> NoOutput, raised |-> "KeyError"]
        ELSE
          AnalyseTracks(self, frame,
             FeedObjects([lc_tracker |-> lc0, idle_tracker |-> idle0,
                          crowd_tracker |->
                             GetD(self.crowd_trackers, s,
                                  CrowdTracker(calib_config[s].crowd.crowd_area)),
                          speed_estimator |->
                             GetD(self.speed_estimators, s,
                                  SpeedEstimator(calib_config[s].speed.speed_area,
                                                 calib_config[s].speed.speed_area_real_width,
                                                 calib_config[s].speed.speed_area_real_height)),
                          last_frames |-> GetD(self.track_last_frame_num, s, EmptyMap),
                          touched |-> s \in DOMAIN self.track_last_frame_num,
                          obj_metas |-> << >>,
                          interested_object_idxs |-> << >>],
                         frame.objects, 1, frame.frame_num, now,
                         Reshape2(calib_config[s].crowd.crowd_area)))

\* what a call did: the analytics' output, how the call ended and which
\* tracks the cleanup removed
Outcome(out, outcome, removed) ==
    [accepted |-> out.accepted, idxs |-> out.idxs, dirs |-> out.dirs,
     attrs |-> out.attrs, primary_attrs |-> out.primary_attrs,
     outcome |-> outcome, removed |-> removed]

\* the end of process_frame: the cleanup's result c after the analytics'
\* result a, unless the analytics raised
WithCleanup(analysed, a, c) ==
    IF a.raised # "None"
    THEN [self |-> a.self, out |-> Outcome(a.out, a.raised, {})]
    ELSE [self |-> c.self,
          out |-> Outcome(a.out,
                          IF c.raised THEN "KeyError"
                          ELSE IF analysed THEN "analysed" ELSE "skipped",
                          c.removed)]

AnalyseThenCleanup(analysed, a, frame) ==
    WithCleanup(analysed, a, Cleanup(a.self, frame.source_id, frame.frame_num))

\* process_frame: [self |-> the plugin afterwards, out |-> what the call did]
process_frame(self, frame, now) ==
    IF PrimaryIndex(frame.objects) # 0 /\ frame.source_id \in DOMAIN areas
    THEN AnalyseThenCleanup(TRUE, Analyse(self, frame, now), frame)
    ELSE AnalyseThenCleanup(FALSE, [self |-> self, out |-> NoOutput, raised |-> "None"],
                            frame)

----------------------------------------------------------------------------
(* Bounds and input sets *)

\* longest list of track ids passed to one batch call
MaxIds == 2

Tracks == {1, 2}

TrackIdLists == UNION {[1..n -> Tracks] : n \in 0..MaxIds}

\* the positions the second track takes: the two sides of the area
TrackerPoints2 == {<<5, -5>>, <<5, 15>>}

PointsOf(t) == IF t = 1 THEN TrackerPoints ELSE TrackerPoints2

----------------------------------------------------------------------------
VARIABLES
    lct,        \* a TwoLinesCrossingTracker driven on its own
    lct_ref,    \* the same calls made on a tracker whose remove_track discards
                \* the window and the remembered labels (spec 4.2)
    lct_call,   \* the last call made on lct, with what it was given and returned
    se,         \* a SpeedEstimator driven on its own
    se_clock,   \* the next reading of the clock its samples are stamped with
    se_call,    \* the last call made on se
    lc,         \* the LineCrossing plugin instance
    frame_no,   \* per source, the number of its next frame
    lc_call,    \* the last callback of the plugin, with what it did
    ov_frame,   \* the object list of the frame handed to Overlay.draw_on_frame
    ov_drawn,   \* whether it was drawn, and the frame indices of the objects drawn
    pg_call,    \* the last call of is_inside_postgis: polygon, point and result
    crowd,      \* a CrowdTracker driven on its own
    crowd_call, \* the last call made on crowd
    idle,       \* an IdleObjectTracker driven on its own
    idle_call,  \* the last call made on idle
    cfg_call,   \* the last area construction: the lines given and its outcome
    skip_call,  \* the last call of ConditionalDetectorSkip.process_frame
    art,        \* an ArtistGPUMat and the scope it is used in
    art_call,   \* the last call made on art
    fn_call     \* the last call of a function without state: its arguments
                \* and its result

trackerVars == <<lct, lct_ref, lct_call>>

speedVars == <<se, se_clock, se_call>>

pluginVars == <<lc, frame_no, lc_call>>

overlayVars == <<ov_frame, ov_drawn>>

artistVars == <<art, art_call, fn_call>>

\* the variables of the functions and trackers checked on their own
restVars ==
    <<pg_call, crowd, crowd_call, idle, idle_call, cfg_call, skip_call,
      art, art_call, fn_call>>

vars == <<lct, lct_ref, lct_call, se, se_clock, se_call, lc, frame_no, lc_call,
          ov_frame, ov_drawn, pg_call, crowd, crowd_call, idle, idle_call,
          cfg_call, skip_call, art, art_call, fn_call>>

\* cam1 has lines and calibration, cam2 neither, cam3 lines only
Sources == {"cam1", "cam2", "cam3"}

TrackerStart ==
    /\ lct = TwoLinesCrossingTracker(areas.cam1)
    /\ lct_ref = TwoLinesCrossingTracker(areas.cam1)
    /\ lct_call = [op |-> "init"]

SpeedStart ==
    /\ se = SpeedEstimator(calib_config.cam1.speed.speed_area,
                           calib_config.cam1.speed.speed_area_real_width,
                           calib_config.cam1.speed.speed_area_real_height)
    /\ se_clock = 0
    /\ se_call = [op |-> "init"]

PluginStart ==
    /\ lc = LineCrossing
    /\ frame_no = [s \in Sources |-> 0]
    /\ lc_call = [op |-> "init"]

OverlayStart ==
    /\ ov_frame = << >>
    /\ ov_drawn = [done |-> FALSE, idxs |-> << >>]

\* the buffer length and the distance tolerance of the idle tracker on its own
IdleBuffer == 3

IdleThreshold == 20

\* the polygon of the point-in-polygon test and of the crowd tracker on its
\* own: the square (0,0)-(10,10) as a flat coordinate list
SquareArea == <<0, 0, 10, 0, 10, 10, 0, 10>>

RestStart ==
    /\ pg_call = [op |-> "init"]
    /\ crowd = CrowdTracker(SquareArea)
    /\ crowd_call = [op |-> "init"]
    /\ idle = IdleObjectTracker(IdleBuffer, IdleThreshold)
    /\ idle_call = [op |-> "init"]
    /\ cfg_call = [op |-> "init"]
    /\ skip_call = [op |-> "init"]
    /\ art = [scope |-> "none"]
    /\ art_call = [op |-> "init"]
    /\ fn_call = [op |-> "init"]

\* what the library answered for each track id of a check_tracks call
\* ("NoSegment": the track had no 2-point window and was not queried)
ResultsOf(tr, track_ids) ==
    [i \in 1..Len(track_ids) |->
        IF track_ids[i] \in DOMAIN tr.track_last_points
           /\ Len(tr.track_last_points[track_ids[i]]) = 2
        THEN crossed_by_segments(tr.area, <<tr.track_last_points[track_ids[i]]>>)[1]
        ELSE [kind |-> "NoSegment", edges |-> << >>]]

TrackerInit == TrackerStart /\ SpeedStart /\ PluginStart /\ OverlayStart /\ RestStart

TrackerAdd ==
    \E t \in Tracks :
      \E p \in PointsOf(t) :
        /\ lct' = add_track_point(lct, t, p)
        /\ lct_call' = [op |-> "add_track_point", track_id |-> t, point |-> p]
        /\ UNCHANGED <<lct_ref, speedVars, pluginVars, overlayVars, restVars>>

TrackerCheck ==
    \E ids \in TrackIdLists :
        LET r == check_tracks(lct, ids)
        IN  /\ lct' = r.tr
            /\ lct_call' = [op |-> "check_tracks", track_ids |-> ids, ret |-> r.ret,
                            results |-> ResultsOf(lct, ids),
                            before |-> lct.prev_cross_edge_label]
            /\ UNCHANGED <<lct_ref, speedVars, pluginVars, overlayVars, restVars>>

TrackerRemove ==
    \E t \in Tracks :
        /\ lct' = remove_track(lct, t)
        /\ lct_call' = [op |-> "remove_track", track_id |-> t]
        /\ UNCHANGED <<lct_ref, speedVars, pluginVars, overlayVars, restVars>>

TrackerNext == TrackerAdd \/ TrackerCheck \/ TrackerRemove

SpecTracker == TrackerInit /\ [][TrackerNext]_vars

----------------------------------------------------------------------------
(* One track of a tracker against the tracker of spec 4.2, whose           *)
(* remove_track discards the window and the pending state.                 *)

remove_track_discarding(tr, track_id) ==
    [tr EXCEPT !.track_last_points = Del(@, track_id),
               !.prev_cross_edge_label = Del(@, track_id)]

RemovalInit == TrackerInit

RemovalAdd ==
    \E p \in TrackerPoints :
        /\ lct' = add_track_point(lct, 1, p)
        /\ lct_ref' = add_track_point(lct_ref, 1, p)
        /\ lct_call' = [op |-> "add_track_point", track_id |-> 1, point |-> p]
        /\ UNCHANGED <<speedVars, pluginVars, overlayVars, restVars>>

RemovalCheck ==
    LET r == check_tracks(lct, <<1>>)
        rr == check_tracks(lct_ref, <<1>>)
    IN  /\ lct' = r.tr
        /\ lct_ref' = rr.tr
        /\ lct_call' = [op |-> "check_tracks", track_ids |-> <<1>>, ret |-> r.ret,
                        ref_ret |-> rr.ret]
        /\ UNCHANGED <<speedVars, pluginVars, overlayVars, restVars>>

RemovalRemove ==
    /\ lct' = remove_track(lct, 1)
    /\ lct_ref' = remove_track_discarding(lct_ref, 1)
    /\ lct_call' = [op |-> "remove_track", track_id |-> 1]
    /\ UNCHANGED <<speedVars, pluginVars, overlayVars, restVars>>

RemovalNext == RemovalAdd \/ RemovalCheck \/ RemovalRemove

SpecRemoval == RemovalInit /\ [][RemovalNext]_vars

----------------------------------------------------------------------------
(* Claims on TwoLinesCrossingTracker *)

IsCheck == lct_call.op = "check_tracks"

OwnLabels(i) == SelectSeq(EdgeLabels(lct_call.results[i]), NotNone)

Remembered(i) ==
    IF lct_call.track_ids[i] \in DOMAIN lct_call.before
    THEN SelectSeq(lct_call.before[lct_call.track_ids[i]], NotNone)
    ELSE << >>

\* ret is 'entry' iff seq is [from, to], 'exit' iff it is [to, from], and no
\* direction otherwise
DirectionMatches(ret, seq) ==
    /\ (ret = "entry") <=> (seq = <<"from", "to">>)
    /\ (ret = "exit") <=> (seq = <<"to", "from">>)
    /\ (ret = "None") <=> (seq # <<"from", "to">> /\ seq # <<"to", "from">>)

\* C1: for every track whose segment is classified as leaving, the labels
\* remembered at its earlier entering (if any) come before the labels of the
\* leaving, None labels are dropped, and the direction is 'entry' iff what is
\* left is [from, to], 'exit' iff it is [to, from], none otherwise.
C1_LeaveDirection ==
    IsCheck =>
        \A i \in 1..Len(lct_call.track_ids) :
            lct_call.results[i].kind = "Leave" =>
                DirectionMatches(lct_call.ret[i], Remembered(i) \o OwnLabels(i))

\* a leaving with remembered labels that reports 'entry'
C1_Witness ==
    /\ IsCheck
    /\ \E i \in 1..Len(lct_call.track_ids) :
          /\ lct_call.results[i].kind = "Leave"
          /\ lct_call.track_ids[i] \in DOMAIN lct_call.before
          /\ lct_call.ret[i] = "entry"

\* C2: after remove_track(t) no direction reported for t depends on labels
\* remembered before the removal: every check_tracks call returns what the
\* tracker that discards window and pending state returns.
C2_RemovalForgets ==
    IsCheck => lct_call.ret = lct_call.ref_ret

StrictlyInside(p) == 0 < p[1] /\ p[1] < 10 /\ 0 < p[2] /\ p[2] < 10

\* C4: with the area of from=(0,0)-(10,0), to=(0,10)-(10,10), the window
\* (5,-5),(5,15) reports 'entry', the window (5,15),(5,-5) reports 'exit', and
\* a window of two points inside the area reports no direction.
C4_SquareDirections ==
    /\ lct.area.vertices = << <<0, 0>>, <<10, 0>>, <<10, 10>>, <<0, 10>> >>
    /\ IsCheck =>
        \A i \in 1..Len(lct_call.track_ids) :
            LET w == lct.track_last_points[lct_call.track_ids[i]]
            IN  /\ w = << <<5, -5>>, <<5, 15>> >> => lct_call.ret[i] = "entry"
                /\ w = << <<5, 15>>, <<5, -5>> >> => lct_call.ret[i] = "exit"
                /\ (Len(w) = 2 /\ StrictlyInside(w[1]) /\ StrictlyInside(w[2]))
                       => lct_call.ret[i] = "None"

\* one call that checks a from->to window and an inside window
C4_Witness ==
    /\ IsCheck
    /\ \E i, j \in 1..Len(lct_call.track_ids) :
          /\ lct.track_last_points[lct_call.track_ids[i]] = << <<5, -5>>, <<5, 15>> >>
          /\ lct_call.ret[i] = "entry"
          /\ lct.track_last_points[lct_call.track_ids[j]] = << <<5, 5>>, <<5, 6>> >>
          /\ lct_call.ret[j] = "None"

ExpectedKinds == {"Inside", "Outside", "Enter", "Leave"}

Unexpected(i) == lct_call.results[i].kind \notin ExpectedKinds \cup {"NoSegment"}

\* C5 as stated: a classification that is none of the four expected kinds
\* gets no direction, whatever its labels.
C5_UnexpectedIgnored ==
    IsCheck =>
        \A i \in 1..Len(lct_call.track_ids) :
            Unexpected(i) => lct_call.ret[i] = "None"

\* C5 amended: a classification that is none of the four expected kinds
\* neither consults nor changes the remembered labels of its track; its
\* direction is 'entry' iff its own labels, None dropped, are [from, to],
\* 'exit' iff they are [to, from], and none otherwise.
C5_UnexpectedByOwnLabels ==
    IsCheck =>
        \A i \in 1..Len(lct_call.track_ids) :
            Unexpected(i) =>
                /\ DirectionMatches(lct_call.ret[i], OwnLabels(i))
                /\ LET t == lct_call.track_ids[i]
                   IN  /\ (t \in DOMAIN lct.prev_cross_edge_label)
                             <=> (t \in DOMAIN lct_call.before)
                       /\ t \in DOMAIN lct_call.before
                             => lct.prev_cross_edge_label[t] = lct_call.before[t]

\* a pass through the area, classified Cross, of a track with remembered
\* labels [from], touching 'to' and then an unlabeled edge
C5_Witness ==
    /\ IsCheck
    /\ \E i \in 1..Len(lct_call.track_ids) :
          /\ Unexpected(i)
          /\ lct_call.track_ids[i] \in DOMAIN lct_call.before
          /\ lct_call.before[lct_call.track_ids[i]] = <<"from">>
          /\ EdgeLabels(lct_call.results[i]) = <<"to", "None">>
          /\ lct_call.ret[i] = "None"

----------------------------------------------------------------------------
(* SpeedEstimator driven on its own: samples stamped by a clock that moves *)
(* forward between any two readings.                                       *)

\* the last reading the clock gives
MaxClock == 3

\* the positions sampled: outside the lines on either side, and one between
\* them at no whole distance from either
SpeedPoints == {<<5, -5>>, <<5, 15>>, <<6, 1>>}

SpeedInit == TrackerStart /\ SpeedStart /\ PluginStart /\ OverlayStart /\ RestStart

SpeedUpdate ==
    \E t \in Tracks :
      \E p \in SpeedPoints :
        /\ se_clock <= MaxClock
        /\ se' = speed_update(se, t, p, se_clock)
        /\ se_clock' = se_clock + 1
        /\ se_call' = [op |-> "update", track_id |-> t]
        /\ UNCHANGED <<trackerVars, pluginVars, overlayVars, restVars>>

SpeedEstimate ==
    \E ids \in TrackIdLists :
        /\ se_call' = [op |-> "estimate", track_ids |-> ids, ret |-> estimate(se, ids)]
        /\ UNCHANGED <<se, se_clock, trackerVars, pluginVars, overlayVars, restVars>>

SpeedRemove ==
    \E t \in Tracks :
        /\ se' = speed_remove_track(se, t)
        /\ se_call' = [op |-> "remove_track", track_id |-> t]
        /\ UNCHANGED <<se_clock, trackerVars, pluginVars, overlayVars, restVars>>

SpeedNext == SpeedUpdate \/ SpeedEstimate \/ SpeedRemove

SpecSpeed == SpeedInit /\ [][SpeedNext]_vars

----------------------------------------------------------------------------
(* Claims on SpeedEstimator *)

\* the speed of one track computed from its own history: 0 with fewer than
\* 2 samples
OwnSpeed(track_id) ==
    IF HasLine(se, track_id)
    THEN LineSpeed(se, se.history[track_id][1],
                   se.history[track_id][Len(se.history[track_id])])
    ELSE 0

\* C10: estimate(track_ids) returns a list aligned with track_ids: position k
\* holds the speed computed from the history of track_ids[k], and a track
\* with fewer than 2 samples reports 0.
C10_EstimateAligned ==
    (se_call.op = "estimate" /\ ~se_call.ret.raised) =>
        /\ Len(se_call.ret.results) = Len(se_call.track_ids)
        /\ \A k \in 1..Len(se_call.track_ids) :
              se_call.ret.results[k] = OwnSpeed(se_call.track_ids[k])

\* w * h times the length in meters, squared, of the line from sample a to
\* sample b: the speed area of w x h pixels shows W x H meters
MetersSquared(a, b) ==
    LET speed == calib_config.cam1.speed
        w == speed.speed_area[3] - speed.speed_area[1]
        h == speed.speed_area[6] - speed.speed_area[4]
        mx == (b[1] - a[1]) * speed.speed_area_real_width * h
        my == (b[2] - a[2]) * speed.speed_area_real_height * w
    IN  [len2 |-> mx * mx + my * my, unit2 |-> (w * h) * (w * h)]

\* v is the quotient of the length of a-b in meters by the time between a and
\* b, cut to an integer
IsTruncatedSpeed(v, a, b) ==
    LET m == MetersSquared(a, b)
        t == Abs(b[3] - a[3])
    IN  /\ v >= 0
        /\ v * v * t * t * m.unit2 <= m.len2
        /\ m.len2 < (v + 1) * (v + 1) * t * t * m.unit2

----------------------------------------------------------------------------
(* Overlay.draw_on_frame of the people-counting sample: which objects of   *)
(* a frame get their box drawn.  An object of the frame is                 *)
(* [is_primary, track_id, object_idxs], object_idxs being its              *)
(* interested_objects/object_idxs attribute: [present, value].             *)

Range(seq) == {seq[k] : k \in 1..Len(seq)}

\* the value of interested_object_idxs after the first loop:
\* [none |-> it is None, value |-> the list otherwise]
InterestedObjectIdxs(objects) ==
    LET p == PrimaryIndex(objects)
    IN  IF p = 0 THEN [none |-> TRUE, value |-> << >>]
        ELSE IF objects[p].object_idxs.present
        THEN [none |-> FALSE, value |-> objects[p].object_idxs.value]
        ELSE [none |-> FALSE, value |-> << >>]

\* the key an object is looked up by in the list of interested objects
\* (i is the index enumerate gives it)
FilterKey(i, obj_meta) == obj_meta.track_id

\* the condition under which the object at index i is drawn
IsDrawn(i, obj_meta, interested_object_idxs) ==
    /\ ~obj_meta.is_primary
    /\ \/ interested_object_idxs.none
       \/ /\ interested_object_idxs.value # << >>
          /\ FilterKey(i, obj_meta) \in Range(interested_object_idxs.value)

\* the positions in the object list (from 1: enumerate's index plus one) of
\* the objects drawn, in order
draw_on_frame(objects) ==
    LET interested_object_idxs == InterestedObjectIdxs(objects)
        keep(k) == IsDrawn(k - 1, objects[k], interested_object_idxs)
    IN  SelectSeq([k \in 1..Len(objects) |-> k], keep)

\* most non-primary objects of a frame
MaxObjs == 2

OverlayTracks == {1, 2, 3, 4}

AttrAbsent == [present |-> FALSE, value |-> << >>]

AttrLists == {<< >>, <<1>>, <<2>>, <<3>>, <<1, 2>>}

OverlayAttrs == {AttrAbsent} \cup {[present |-> TRUE, value |-> l] : l \in AttrLists}

\* lists of distinct track ids
TrackSeqs == {q \in UNION {[1..n -> OverlayTracks] : n \in 0..MaxObjs} :
                 \A a, b \in 1..Len(q) : a # b => q[a] # q[b]}

PlainObject(t) == [is_primary |-> FALSE, track_id |-> t, object_idxs |-> AttrAbsent]

PrimaryObject(attr) == [is_primary |-> TRUE, track_id |-> 0, object_idxs |-> attr]

\* frames: the tracked objects, behind the primary object when there is one
OverlayFrames ==
    {[k \in 1..Len(q) |-> PlainObject(q[k])] : q \in TrackSeqs}
    \cup {<<PrimaryObject(a)>> \o [k \in 1..Len(q) |-> PlainObject(q[k])] :
             a \in OverlayAttrs, q \in TrackSeqs}

OverlayInit ==
    /\ TrackerStart /\ SpeedStart /\ PluginStart /\ RestStart
    /\ ov_frame \in OverlayFrames
    /\ ov_drawn = [done |-> FALSE, idxs |-> << >>]

OverlayDraw ==
    /\ ~ov_drawn.done
    /\ ov_drawn' = [done |-> TRUE,
                    idxs |-> [k \in 1..Len(draw_on_frame(ov_frame)) |->
                                 draw_on_frame(ov_frame)[k] - 1]]
    /\ UNCHANGED <<ov_frame, trackerVars, speedVars, pluginVars, restVars>>

OverlayNext == OverlayDraw

SpecOverlay == OverlayInit /\ [][OverlayNext]_vars

----------------------------------------------------------------------------
(* Claims on Overlay.draw_on_frame *)

NonPrimaryIdxs == {k - 1 : k \in {j \in 1..Len(ov_frame) : ~ov_frame[j].is_primary}}

HasPrimary == PrimaryIndex(ov_frame) # 0

PrimaryAttr == ov_frame[PrimaryIndex(ov_frame)].object_idxs

\* C8: when the primary object carries no object_idxs attribute every
\* non-primary object is drawn; when it carries an empty list none is.
C8_AbsentDrawsAll ==
    (ov_drawn.done /\ HasPrimary) =>
        /\ ~PrimaryAttr.present => Range(ov_drawn.idxs) = NonPrimaryIdxs
        /\ (PrimaryAttr.present /\ PrimaryAttr.value = << >>) => ov_drawn.idxs = << >>

\* C9: when the attribute holds a non-empty list, a non-primary object is
\* drawn iff its index in the frame's object list is a member of the list.
C9_FilterByFrameIndex ==
    (ov_drawn.done /\ HasPrimary /\ PrimaryAttr.present /\ PrimaryAttr.value # << >>) =>
        Range(ov_drawn.idxs) = NonPrimaryIdxs \cap Range(PrimaryAttr.value)

----------------------------------------------------------------------------
(* The plugin's callbacks on a stream of frames.  An object of a frame is  *)
(* [is_primary, label, track_id, xc, yc]; a frame is                       *)
(* [source_id, frame_num, pts, objects].  The frames of a source are       *)
(* numbered from 0, again after its end of stream; the wall clock read for *)
(* the speed samples advances by one unit per frame.                       *)

\* the number of the last frame of a stream of cam1
MaxFrame == 2

\* the number of the last frame of a stream of a source without lines
MaxOtherFrame == 0

\* pts of a frame: 40 ms per frame
FramePts(frame_num) == 40 * frame_num

Primary == [is_primary |-> TRUE, label |-> "frame", track_id |-> 0, xc |-> 5, yc |-> 5]

Obj(label, t, p) ==
    [is_primary |-> FALSE, label |-> label, track_id |-> t, xc |-> p[1], yc |-> p[2]]

\* what track 1 is in a frame: a person on either side of the lines or
\* between them, or a car
Track1Objects ==
    {Obj("person", 1, p) : p \in {<<5, -5>>, <<5, 5>>, <<5, 15>>}}
    \cup {Obj("car", 1, <<5, 5>>)}

\* what track 2 is in a frame: a person between the lines or outside the
\* region of interest
Track2Objects == {Obj("person", 2, p) : p \in {<<5, 5>>, <<5, 30>>}}

Optional(objs) == {<< >>} \cup {<<o>> : o \in objs}

FrameObjects ==
    {<<Primary>> \o a \o b : a \in Optional(Track1Objects), b \in Optional(Track2Objects)}
    \cup {<< >>, <<Obj("person", 1, <<5, 5>>)>>}

OtherFrameObjects == {<< >>, <<Primary>>}

Frame(s, n, objects) ==
    [source_id |-> s, frame_num |-> n, pts |-> FramePts(n), objects |-> objects]

\* which of the plugin's maps hold an entry for the source
HeldMaps(self, s) == {k \in DOMAIN self : s \in DOMAIN self[k]}

CallRecord(frame, out) ==
    [op |-> "process_frame", source_id |-> frame.source_id,
     frame_num |-> frame.frame_num, pts |-> frame.pts, objects |-> frame.objects,
     out |-> out]

\* the framework calls process_frame on a frame: r is what the call gives
Called(frame, r) ==
    /\ lc' = r.self
    /\ lc_call' = CallRecord(frame, r.out)

Init == TrackerStart /\ SpeedStart /\ PluginStart /\ OverlayStart /\ RestStart

ProcessFrame ==
    \E objects \in FrameObjects :
        LET frame == Frame("cam1", frame_no.cam1, objects)
        IN  /\ frame_no.cam1 <= MaxFrame
            /\ Called(frame, process_frame(lc, frame, frame.frame_num))
            /\ frame_no' = [frame_no EXCEPT !.cam1 = @ + 1]
            /\ UNCHANGED <<trackerVars, speedVars, overlayVars, restVars>>

ProcessOtherFrame ==
    \E objects \in OtherFrameObjects :
        LET frame == Frame("cam2", frame_no.cam2, objects)
        IN  /\ frame_no.cam2 <= MaxOtherFrame
            /\ Called(frame, process_frame(lc, frame, frame.frame_num))
            /\ frame_no' = [frame_no EXCEPT !.cam2 = @ + 1]
            /\ UNCHANGED <<trackerVars, speedVars, overlayVars, restVars>>

SourceEos ==
    \E s \in Sources :
        /\ frame_no[s] > 0
        /\ lc' = on_source_eos(lc, s)
        /\ frame_no' = [frame_no EXCEPT ![s] = 0]
        /\ lc_call' = [op |-> "on_source_eos", source_id |-> s,
                       held |-> HeldMaps(lc, s),
                       entries |-> GetD(lc.entry_count, s, 0),
                       exits |-> GetD(lc.exit_count, s, 0)]
        /\ UNCHANGED <<trackerVars, speedVars, overlayVars, restVars>>

Next == ProcessFrame \/ ProcessOtherFrame \/ SourceEos

Spec == Init /\ [][Next]_vars

----------------------------------------------------------------------------
(* A longer stream of cam1 with fewer kinds of frames, on which tracks go  *)
(* stale and are cleaned up.                                               *)

\* the number of the last frame of the stream
MaxStaleFrame == 4

StaleFrameObjects ==
    {<<Primary>> \o a \o b :
        a \in Optional({Obj("person", 1, p) : p \in {<<5, -5>>, <<5, 15>>}}),
        b \in Optional({Obj("person", 2, <<5, 5>>)})}
    \cup {<< >>}

StaleInit == Init

StaleFrame ==
    \E objects \in StaleFrameObjects :
        LET frame == Frame("cam1", frame_no.cam1, objects)
        IN  /\ frame_no.cam1 <= MaxStaleFrame
            /\ Called(frame, process_frame(lc, frame, frame.frame_num))
            /\ frame_no' = [frame_no EXCEPT !.cam1 = @ + 1]
            /\ UNCHANGED <<trackerVars, speedVars, overlayVars, restVars>>

StaleNext == StaleFrame

SpecStale == StaleInit /\ [][StaleNext]_vars

----------------------------------------------------------------------------
(* Claims on LineCrossing *)

\* the event log of a track of a source (empty when there is none)
LogOf(self, s, t) ==
    IF s \in DOMAIN self.cross_events /\ t \in DOMAIN self.cross_events[s]
    THEN self.cross_events[s][t] ELSE << >>

CountOf(counts, s) == GetD(counts, s, 0)

\* how many of the directions returned are d
Detected(dirs, d) == Cardinality({k \in 1..Len(dirs) : dirs[k] = d})

\* the 2-point window the crossing tracker of the source holds for a track
WindowOf(self, s, t) ==
    IF s \in DOMAIN self.lc_trackers /\ t \in DOMAIN self.lc_trackers[s].track_last_points
    THEN self.lc_trackers[s].track_last_points[t] ELSE << >>

\* the step is a process_frame call that returned
FrameDone == lc_call'.op = "process_frame" /\ lc_call'.out.outcome \in {"analysed", "skipped"}

\* C3: for each accepted object, a direction detected in this frame appends
\* exactly one (direction, pts) event to the track's log and adds exactly 1
\* to the counter of that direction; with no direction detected the log and
\* the counters stay; the logs of the other tracks stay.  A track seen on the
\* 'from' side and then on the 'to' side is an 'entry'.
C3_EventsAndCounters ==
    [][(FrameDone /\ lc_call'.out.outcome = "analysed") =>
        LET s == lc_call'.source_id
            o == lc_call'.out
        IN  /\ Len(o.dirs) = Len(o.accepted)
            /\ \A k \in 1..Len(o.accepted) :
                 /\ o.dirs[k] \in {"entry", "exit", "None"}
                 /\ LogOf(lc', s, o.accepted[k]) =
                        LogOf(lc, s, o.accepted[k])
                        \o (IF o.dirs[k] # "None"
                            THEN <<<<o.dirs[k], lc_call'.pts>>>> ELSE << >>)
                 /\ WindowOf(lc', s, o.accepted[k]) = <<<<5, -5>>, <<5, 15>>>>
                        => o.dirs[k] = "entry"
            /\ \A t \in Tracks \ Range(o.accepted) : LogOf(lc', s, t) = LogOf(lc, s, t)
            /\ CountOf(lc'.entry_count, s)
                 = CountOf(lc.entry_count, s) + Detected(o.dirs, "entry")
            /\ CountOf(lc'.exit_count, s)
                 = CountOf(lc.exit_count, s) + Detected(o.dirs, "exit")
            /\ o.primary_attrs.entries_n = CountOf(lc'.entry_count, s)
            /\ o.primary_attrs.exits_n = CountOf(lc'.exit_count, s)]_vars

\* track 1 crossed from the 'from' side to the 'to' side: first entry of cam1,
\* logged once
C3_Witness ==
    /\ lc_call.op = "process_frame"
    /\ lc_call.out.outcome = "analysed"
    /\ lc_call.out.accepted = <<1>>
    /\ lc_call.out.dirs = <<"entry">>
    /\ WindowOf(lc, "cam1", 1) = <<<<5, -5>>, <<5, 15>>>>
    /\ lc.entry_count.cam1 = 1
    /\ lc.exit_count.cam1 = 0
    /\ LogOf(lc, "cam1", 1) = <<<<"entry", lc_call.pts>>>>

\* the source has no state: none of the maps holds it, but for a last-seen
\* map without tracks
NoStateOf(self, s) ==
    /\ HeldMaps(self, s) \subseteq {"track_last_frame_num"}
    /\ GetD(self.track_last_frame_num, s, EmptyMap) = EmptyMap

HistoryLens(tracker) == {Len(tracker.history[t]) : t \in DOMAIN tracker.history}

\* C6: after on_source_eos(s) none of the maps holds an entry for s, and a
\* frame of s analysed from there starts from counts 0, empty event logs and
\* freshly created trackers that hold this frame's points only.
C6_EosDiscardsAll ==
    /\ [](lc_call.op = "on_source_eos" => HeldMaps(lc, lc_call.source_id) = {})
    /\ [][(FrameDone /\ lc_call'.out.outcome = "analysed"
             /\ NoStateOf(lc, lc_call'.source_id)) =>
          LET s == lc_call'.source_id
              o == lc_call'.out
          IN  /\ o.primary_attrs.entries_n = 0
              /\ o.primary_attrs.exits_n = 0
              /\ CountOf(lc'.entry_count, s) = 0
              /\ CountOf(lc'.exit_count, s) = 0
              /\ \A k \in 1..Len(o.accepted) :
                    /\ o.dirs[k] = "None"
                    /\ o.attrs[k].lc_tracker = << >>
                    /\ o.attrs[k].speed = 0
                    /\ LogOf(lc', s, o.accepted[k]) = << >>
                    /\ WindowOf(lc', s, o.accepted[k]) =
                          <<lc'.idle_trackers[s].history[o.accepted[k]][1]>>
              /\ DOMAIN lc'.lc_trackers[s].track_last_points = Range(o.accepted)
              /\ lc'.lc_trackers[s].prev_cross_edge_label = EmptyMap
              /\ DOMAIN lc'.idle_trackers[s].history = Range(o.accepted)
              /\ DOMAIN lc'.speed_estimators[s].history = Range(o.accepted)
              /\ HistoryLens(lc'.idle_trackers[s]) \subseteq {1}
              /\ HistoryLens(lc'.speed_estimators[s]) \subseteq {1}
              /\ lc'.crowd_trackers[s].people_coordinates = << >>
              /\ DOMAIN lc'.track_last_frame_num[s] = Range(o.accepted)]_vars

\* the end of a stream of cam1 that had counted an entry and held an entry
\* in every map
C6_Witness ==
    /\ lc_call.op = "on_source_eos"
    /\ lc_call.source_id = "cam1"
    /\ lc_call.held = DOMAIN LineCrossing
    /\ lc_call.entries >= 1
    /\ HeldMaps(lc, "cam1") = {}

\* the history a tracker (idle or speed) of the source holds for a track
HistoryOf(trackers, s, t) ==
    IF s \in DOMAIN trackers /\ t \in DOMAIN trackers[s].history
    THEN trackers[s].history[t] ELSE << >>

\* C7: on a frame whose number is a multiple of stale_track_del_period exactly
\* the tracks of the source last seen more than the period ago leave the
\* last-seen map and the crossing tracker; their idle and speed histories and
\* event logs stay, the counters move by this frame's detections only, a
\* frame without analytics changes no other map; on the other frames no
\* track is removed.
C7_StaleCleanup ==
    [][FrameDone =>
        LET s == lc_call'.source_id
            n == lc_call'.frame_num
            o == lc_call'.out
            seen == GetD(lc.track_last_frame_num, s, EmptyMap)
            known == DOMAIN seen \cup Range(o.accepted)
            last == [t \in known |-> IF t \in Range(o.accepted) THEN n ELSE seen[t]]
            stale == IF n % stale_track_del_period = 0
                     THEN {t \in known : n - last[t] > stale_track_del_period}
                     ELSE {}
            windows == IF s \in DOMAIN lc.lc_trackers
                       THEN DOMAIN lc.lc_trackers[s].track_last_points ELSE {}
            windows2 == IF s \in DOMAIN lc'.lc_trackers
                        THEN DOMAIN lc'.lc_trackers[s].track_last_points ELSE {}
        IN  /\ o.removed = stale
            /\ GetD(lc'.track_last_frame_num, s, EmptyMap)
                 = [t \in known \ stale |-> last[t]]
            /\ windows2 = (windows \cup Range(o.accepted)) \ stale
            /\ \A t \in stale :
                 /\ HistoryOf(lc'.idle_trackers, s, t) = HistoryOf(lc.idle_trackers, s, t)
                 /\ HistoryOf(lc'.idle_trackers, s, t) # << >>
                 /\ HistoryOf(lc'.speed_estimators, s, t)
                      = HistoryOf(lc.speed_estimators, s, t)
                 /\ HistoryOf(lc'.speed_estimators, s, t) # << >>
                 /\ LogOf(lc', s, t) = LogOf(lc, s, t)
            /\ CountOf(lc'.entry_count, s)
                 = CountOf(lc.entry_count, s) + Detected(o.dirs, "entry")
            /\ CountOf(lc'.exit_count, s)
                 = CountOf(lc.exit_count, s) + Detected(o.dirs, "exit")
            /\ o.outcome = "skipped" =>
                 /\ lc'.cross_events = lc.cross_events
                 /\ lc'.entry_count = lc.entry_count
                 /\ lc'.exit_count = lc.exit_count
                 /\ lc'.idle_trackers = lc.idle_trackers
                 /\ lc'.crowd_trackers = lc.crowd_trackers
                 /\ lc'.speed_estimators = lc.speed_estimators]_vars

\* frame 4 removes track 1, last seen on frame 1 after its entry, while
\* track 2 stays; the histories and the log of track 1 are still held
C7_Witness ==
    /\ lc_call.op = "process_frame"
    /\ lc_call.frame_num = 4
    /\ lc_call.out.removed = {1}
    /\ DOMAIN lc.track_last_frame_num.cam1 = {2}
    /\ DOMAIN lc.lc_trackers.cam1.track_last_points = {2}
    /\ Len(HistoryOf(lc.idle_trackers, "cam1", 1)) = 2
    /\ Len(HistoryOf(lc.speed_estimators, "cam1", 1)) = 2
    /\ LogOf(lc, "cam1", 1) = <<<<"entry", 40>>>>
    /\ lc.entry_count.cam1 = 1

----------------------------------------------------------------------------
(* is_inside_postgis on its own: the square against the points of a grid   *)

\* how far the grid of query points reaches beyond the square on each side
GridMargin == 5

GridPoints == {<<x, y>> : x \in (0 - GridMargin)..(10 + GridMargin),
                          y \in (0 - GridMargin)..(10 + GridMargin)}

PointTest ==
    \E point \in GridPoints :
        /\ pg_call' = [op |-> "is_inside_postgis",
                       polygon |-> Reshape2(SquareArea),
                       point |-> point,
                       ret |-> is_inside_postgis(Reshape2(SquareArea), point)]
        /\ UNCHANGED <<trackerVars, speedVars, pluginVars, overlayVars,
                       crowd, crowd_call, idle, idle_call, cfg_call, skip_call,
                       artistVars>>

SpecPoint == Init /\ [][PointTest]_vars

\* the point is in the closed square (0,0)-(10,10): strictly inside it or on
\* one of its edges
InSquare(point) == point[1] >= 0 /\ point[1] <= 10 /\ point[2] >= 0 /\ point[2] <= 10

\* C11: is_inside_postgis answers 'inside' (a result other than 0) for every
\* point strictly inside the square or on one of its edges, and 'outside'
\* for every point strictly outside it.
C11_PointInPolygon ==
    pg_call.op = "is_inside_postgis" =>
        ((pg_call.ret # 0) <=> InSquare(pg_call.point))

----------------------------------------------------------------------------
(* CrowdTracker driven on its own, with the square as its crowd polygon    *)

\* most points accumulated between two checks
MaxCrowd == 3

\* the points fed: inside the square, on its edge, outside above and beside
CrowdPoints == {<<5, 5>>, <<0, 5>>, <<15, 15>>, <<-5, 5>>}

CrowdThresholds == 0..MaxCrowd

\* the points update was called with since the last check_crowd, kept apart
\* from the tracker's own list
FedSince == IF crowd_call.op = "update" THEN crowd_call.since ELSE << >>

CrowdUpdate ==
    \E point \in CrowdPoints :
        /\ Len(FedSince) < MaxCrowd
        /\ crowd' = crowd_update(crowd, point)
        /\ crowd_call' = [op |-> "update", since |-> Append(FedSince, point)]
        /\ UNCHANGED <<trackerVars, speedVars, pluginVars, overlayVars,
                       pg_call, idle, idle_call, cfg_call, skip_call,
                       artistVars>>

CrowdCheck ==
    \E threshold \in CrowdThresholds :
        /\ crowd' = check_crowd(crowd, threshold).ct
        /\ crowd_call' = [op |-> "check_crowd", threshold |-> threshold,
                          points |-> FedSince,
                          is_crowded |-> check_crowd(crowd, threshold).is_crowded]
        /\ UNCHANGED <<trackerVars, speedVars, pluginVars, overlayVars,
                       pg_call, idle, idle_call, cfg_call, skip_call,
                       artistVars>>

CrowdNext == CrowdUpdate \/ CrowdCheck

SpecCrowd == Init /\ [][CrowdNext]_vars

\* how many of the points pass the point-in-polygon test against the square
InsideCount(points) ==
    Cardinality({k \in 1..Len(points) :
                    is_inside_postgis(Reshape2(SquareArea), points[k]) # 0})

C13_EmptyNotCrowded ==
    (crowd_call.op = "check_crowd" /\ crowd_call.points = << >>) =>
        ~crowd_call.is_crowded

\* C13 amended: with zero accumulated points check_crowd reports 'not
\* crowded' for every threshold of at least 1, and 'crowded' for a threshold
\* of 0 or less (the count 0 meets it).
C13_EmptyNotCrowdedPositive ==
    (crowd_call.op = "check_crowd" /\ crowd_call.points = << >>) =>
        (crowd_call.is_crowded <=> crowd_call.threshold <= 0)

\* a check with nothing accumulated against threshold 2
C13_Witness ==
    /\ crowd_call.op = "check_crowd"
    /\ crowd_call.points = << >>
    /\ crowd_call.threshold = 2
    /\ ~crowd_call.is_crowded

----------------------------------------------------------------------------
(* IdleObjectTracker driven on its own, with a buffer of IdleBuffer        *)
(* samples per track and a tolerance of IdleThreshold pixels               *)

\* the positions of track 1: the origin, 20 px and 21 px right of it, and
\* 20 px from it on a diagonal; track 2 stays at the origin
IdlePoints(t) == IF t = 1 THEN {<<0, 0>>, <<20, 0>>, <<21, 0>>, <<12, 16>>} ELSE {<<0, 0>>}

\* every sample update was called with since the track was created or last
\* removed, kept apart from the tracker's buffers
IdleFed == IF idle_call.op = "init" THEN [t \in Tracks |-> << >>] ELSE idle_call.fed

\* most samples a track is fed
MaxSamples == 4

IdleUpdate ==
    \E t \in Tracks :
      \E p \in IdlePoints(t) :
        /\ Len(IdleFed[t]) < MaxSamples
        /\ idle' = idle_update(idle, t, p)
        /\ idle_call' = [op |-> "update", fed |-> [IdleFed EXCEPT ![t] = Append(@, p)]]
        /\ UNCHANGED <<trackerVars, speedVars, pluginVars, overlayVars,
                       pg_call, crowd, crowd_call, cfg_call, skip_call,
                       artistVars>>

IdleCheck ==
    \E ids \in TrackIdLists :
        /\ idle_call' = [op |-> "check_idle", fed |-> IdleFed, track_ids |-> ids,
                         ret |-> check_idle(idle, ids)]
        /\ UNCHANGED <<trackerVars, speedVars, pluginVars, overlayVars,
                       pg_call, crowd, crowd_call, idle, cfg_call, skip_call,
                       artistVars>>

IdleRemove ==
    \E t \in Tracks :
        /\ idle' = idle_remove_track(idle, t)
        /\ idle_call' = [op |-> "remove_track", fed |-> [IdleFed EXCEPT ![t] = << >>]]
        /\ UNCHANGED <<trackerVars, speedVars, pluginVars, overlayVars,
                       pg_call, crowd, crowd_call, cfg_call, skip_call,
                       artistVars>>

IdleNext == IdleUpdate \/ IdleCheck \/ IdleRemove

SpecIdle == Init /\ [][IdleNext]_vars

\* the samples of a track still retained: the last IdleBuffer ones fed
Retained(t) ==
    LET fed == idle_call.fed[t]
    IN  SubSeq(fed, Max2(1, Len(fed) - IdleBuffer + 1), Len(fed))

\* the sample is within the tolerance of the reference (inclusive)
Within(reference, sample) == Distance2(reference, sample) <= IdleThreshold * IdleThreshold

\* C14: check_idle classifies a track with history 'idle' iff every sample
\* retained in its buffer is within the tolerance (<=) of the oldest retained
\* sample, 'moving' otherwise; a track without history is 'moving'.
C14_IdleByOldest ==
    idle_call.op = "check_idle" =>
        /\ Len(idle_call.ret) = Len(idle_call.track_ids)
        /\ \A k \in 1..Len(idle_call.track_ids) :
             LET kept == Retained(idle_call.track_ids[k])
             IN  idle_call.ret[k] =
                    (IF kept # << >> /\ \A j \in 1..Len(kept) : Within(kept[1], kept[j])
                     THEN "idle" ELSE "moving")

\* track 1 started at the origin, which has left its full buffer since: the
\* oldest retained sample is (21,0) and the track is idle about it; track 2
\* has no history
C14_Witness ==
    /\ idle_call.op = "check_idle"
    /\ idle_call.track_ids = <<1, 2>>
    /\ idle_call.fed[1] = <<<<0, 0>>, <<21, 0>>, <<20, 0>>, <<21, 0>>>>
    /\ idle_call.fed[2] = << >>
    /\ idle_call.ret = <<"idle", "moving">>

----------------------------------------------------------------------------
(* More claims on TwoLinesCrossingTracker *)

\* the labels of the edges the i-th segment touched, None labels included
TouchedLabels(i) ==
    [k \in 1..Len(lct_call.results[i].edges) |-> lct_call.results[i].edges[k][2]]

\* C17: check_tracks returns no direction for every track whose segment is
\* fully inside, fully outside or entering; an entering replaces the track's
\* remembered labels by the labels touched (None included); fully inside and
\* fully outside leave the remembered labels as they were.
C17_NoDirectionKinds ==
    IsCheck =>
        \A i \in 1..Len(lct_call.track_ids) :
            LET t == lct_call.track_ids[i]
                kind == lct_call.results[i].kind
            IN  /\ kind \in {"Inside", "Outside", "Enter"} => lct_call.ret[i] = "None"
                /\ kind = "Enter" =>
                      /\ t \in DOMAIN lct.prev_cross_edge_label
                      /\ lct.prev_cross_edge_label[t] = TouchedLabels(i)
                /\ kind \in {"Inside", "Outside"} =>
                      /\ (t \in DOMAIN lct.prev_cross_edge_label)
                            <=> (t \in DOMAIN lct_call.before)
                      /\ t \in DOMAIN lct_call.before
                            => lct.prev_cross_edge_label[t] = lct_call.before[t]

\* one call in which track 1, which had entered over 'from', enters again
\* over an unlabeled edge, and track 2 stays outside with its labels kept
C17_Witness ==
    /\ IsCheck
    /\ lct_call.track_ids = <<1, 2>>
    /\ lct_call.results[1].kind = "Enter"
    /\ 1 \in DOMAIN lct_call.before
    /\ lct_call.before[1] = <<"from">>
    /\ lct.prev_cross_edge_label[1] = <<"None">>
    /\ lct_call.results[2].kind = "Outside"
    /\ lct_call.ret = <<"None", "None">>

\* the window of a track, empty when the tracker holds none for it
WindowOfTrack(tr, t) ==
    IF t \in DOMAIN tr.track_last_points THEN tr.track_last_points[t] ELSE << >>

\* the last two elements of a sequence, all of a shorter one
LastTwo(seq) == IF Len(seq) <= 2 THEN seq ELSE SubSeq(seq, Len(seq) - 1, Len(seq))

\* C28: a track's window holds at most 2 points, the most recent ones added
\* since its last removal, in arrival order: add_track_point appends and
\* drops the oldest on overflow, remove_track empties the window, check_tracks
\* changes no window.  check_tracks forms the segment older -> newer exactly
\* for the tracks with 2 points, and a track with fewer gets no direction.
C28_PointWindow ==
    /\ [](\A t \in DOMAIN lct.track_last_points : Len(lct.track_last_points[t]) <= 2)
    /\ [][/\ lct_call'.op = "add_track_point" =>
              \A t \in Tracks :
                  WindowOfTrack(lct', t) =
                      IF t = lct_call'.track_id
                      THEN LastTwo(Append(WindowOfTrack(lct, t), lct_call'.point))
                      ELSE WindowOfTrack(lct, t)
          /\ lct_call'.op = "remove_track" =>
              \A t \in Tracks :
                  IF t = lct_call'.track_id
                  THEN t \notin DOMAIN lct'.track_last_points
                  ELSE WindowOfTrack(lct', t) = WindowOfTrack(lct, t)
          /\ lct_call'.op = "check_tracks" =>
              /\ \A t \in Tracks : WindowOfTrack(lct', t) = WindowOfTrack(lct, t)
              /\ \A i \in 1..Len(lct_call'.track_ids) :
                    LET w == WindowOfTrack(lct, lct_call'.track_ids[i])
                        kind == lct_call'.results[i].kind
                    IN  IF Len(w) = 2
                        THEN /\ kind # "NoSegment"
                             /\ (kind = "Enter") <=>
                                   (~AreaContains(lct.area, w[1]) /\ AreaContains(lct.area, w[2]))
                             /\ (kind = "Leave") <=>
                                   (AreaContains(lct.area, w[1]) /\ ~AreaContains(lct.area, w[2]))
                        ELSE /\ kind = "NoSegment"
                             /\ lct_call'.ret[i] = "None"]_vars

\* a check of track 1, whose two points give a segment leaving the area,
\* and of track 2, which has one point and gets no direction
C28_Witness ==
    /\ IsCheck
    /\ lct_call.track_ids = <<1, 2>>
    /\ Len(WindowOfTrack(lct, 1)) = 2
    /\ lct_call.results[1].kind = "Leave"
    /\ Len(WindowOfTrack(lct, 2)) = 1
    /\ lct_call.results[2].kind = "NoSegment"
    /\ lct_call.ret[2] = "None"

\* a target-class object whose centre the point-in-polygon test of the
\* source's crowd area takes for inside
InRegionOfInterest(obj_meta, s) ==
    /\ obj_meta.label = "person"
    /\ is_inside_postgis(Reshape2(calib_config[s].crowd.crowd_area),
                         <<obj_meta.xc, obj_meta.yc>>) # 0

\* the centres of the objects of track t that are in the region of interest,
\* in frame order
RECURSIVE CentresOf(_, _, _)
CentresOf(objects, s, t) ==
    IF objects = << >> THEN << >>
    ELSE (IF InRegionOfInterest(Head(objects), s) /\ Head(objects).track_id = t
          THEN <<<<Head(objects).xc, Head(objects).yc>>>> ELSE << >>)
         \o CentresOf(Tail(objects), s, t)

\* each centre with the time stamp of the frame
Stamped(centres, now) == [k \in 1..Len(centres) |-> <<centres[k][1], centres[k][2], now>>]

LastSeenOf(self, s, t) ==
    IF s \in DOMAIN self.track_last_frame_num /\ t \in DOMAIN self.track_last_frame_num[s]
    THEN <<self.track_last_frame_num[s][t]>> ELSE << >>

----------------------------------------------------------------------------
(* Frames of the three sources: with lines and calibration, with neither,  *)
(* with lines only                                                         *)

\* the number of the last frame of a stream
MaxSourceFrame == 1

SourceFrameObjects == {<< >>, <<Primary>>, <<Primary, Obj("person", 1, <<5, 5>>)>>}

SourcesFrame ==
    \E s \in Sources :
      \E objects \in SourceFrameObjects :
        LET frame == Frame(s, frame_no[s], objects)
        IN  /\ frame_no[s] <= MaxSourceFrame
            /\ Called(frame, process_frame(lc, frame, frame.frame_num))
            /\ frame_no' = [frame_no EXCEPT ![s] = @ + 1]
            /\ UNCHANGED <<trackerVars, speedVars, overlayVars, restVars>>

SourcesNext == SourcesFrame \/ SourceEos

SpecSources == Init /\ [][SourcesNext]_vars

----------------------------------------------------------------------------
(* More claims on LineCrossing *)

\* the frame of the call has a primary object
CallHasPrimary(call) == \E i \in 1..Len(call.objects) : call.objects[i].is_primary

\* the crossing tracker of a source, as a new one when there is none
TrackerOf(self, s) == GetD(self.lc_trackers, s, TwoLinesCrossingTracker(areas.cam1))

\* C15: process_frame on a frame without primary object, or of a source
\* without crossing lines, skips all analytics: no tracker is created, no
\* point is fed to any tracker, no counter and no event log changes, and no
\* attribute is written on any object.
C15_SkipsAnalytics ==
    [][(lc_call'.op = "process_frame"
          /\ (~CallHasPrimary(lc_call') \/ lc_call'.source_id \notin DOMAIN line_config)) =>
        LET s == lc_call'.source_id
        IN  /\ lc_call'.out.outcome = "skipped"
            /\ DOMAIN lc'.lc_trackers = DOMAIN lc.lc_trackers
            /\ lc'.idle_trackers = lc.idle_trackers
            /\ lc'.crowd_trackers = lc.crowd_trackers
            /\ lc'.speed_estimators = lc.speed_estimators
            /\ \A t \in DOMAIN TrackerOf(lc', s).track_last_points :
                  /\ t \in DOMAIN TrackerOf(lc, s).track_last_points
                  /\ TrackerOf(lc', s).track_last_points[t]
                        = TrackerOf(lc, s).track_last_points[t]
            /\ TrackerOf(lc', s).prev_cross_edge_label
                  = TrackerOf(lc, s).prev_cross_edge_label
            /\ \A o \in Sources \ {s} : TrackerOf(lc', o) = TrackerOf(lc, o)
            /\ lc'.entry_count = lc.entry_count
            /\ lc'.exit_count = lc.exit_count
            /\ lc'.cross_events = lc.cross_events
            /\ lc_call'.out.attrs = << >>
            /\ ~lc_call'.out.primary_attrs.written]_vars

\* a frame of cam1 with a person and no primary object, when cam1 has its
\* trackers and a counted entry
C15_Witness ==
    /\ lc_call.op = "process_frame"
    /\ lc_call.source_id = "cam1"
    /\ lc_call.objects = <<Obj("person", 1, <<5, 5>>)>>
    /\ lc_call.out.outcome = "skipped"
    /\ "cam1" \in DOMAIN lc.lc_trackers
    /\ lc.entry_count.cam1 = 1

\* C16: process_frame never raises on a missing configuration: every frame
\* of a source missing from the line-crossing configuration or from the
\* calibration configuration, and every frame without primary object,
\* completes with the skip outcome.
C16_MissingConfigSkips ==
    (lc_call.op = "process_frame"
       /\ \/ lc_call.source_id \notin DOMAIN line_config
          \/ lc_call.source_id \notin DOMAIN calib_config
          \/ ~CallHasPrimary(lc_call)) =>
        lc_call.out.outcome = "skipped"

\* C18: on every analysed frame the lc_tracker attributes added to an
\* accepted object are the entire event log of its (source, track), in log
\* order with each event's own timestamp, events of earlier frames included.
C18_WholeLogWritten ==
    (lc_call.op = "process_frame" /\ lc_call.out.outcome = "analysed") =>
        /\ Len(lc_call.out.attrs) = Len(lc_call.out.accepted)
        /\ \A k \in 1..Len(lc_call.out.accepted) :
              lc_call.out.attrs[k].lc_tracker
                  = LogOf(lc, lc_call.source_id, lc_call.out.accepted[k])

\* frame 2 writes the entry of frame 1 (pts 40) on track 1 again, with no
\* event of its own
C18_Witness ==
    /\ lc_call.op = "process_frame"
    /\ lc_call.out.outcome = "analysed"
    /\ lc_call.frame_num = 2
    /\ lc_call.out.accepted = <<1>>
    /\ lc_call.out.dirs = <<"None">>
    /\ lc_call.out.attrs[1].lc_tracker = <<<<"entry", 40>>>>

----------------------------------------------------------------------------
(* Construction of the crossing areas from a line config, once per process *)

\* the line ends of a config have coordinates 0, 10, .., 10 * MaxCoord
MaxCoord == 1

ConfigCoords == {10 * k : k \in 0..MaxCoord}

ConfigLines ==
    {<<x1, y1, x2, y2>> : x1 \in ConfigCoords, y1 \in ConfigCoords,
                          x2 \in ConfigCoords, y2 \in ConfigCoords}

LoadConfig ==
    \E from \in ConfigLines :
      \E to \in ConfigLines :
        LET line_cfg == [from |-> from, to |-> to]
            loaded == LoadAreas("cam1", line_cfg)
        IN  /\ cfg_call.op = "init"
            /\ cfg_call' = [op |-> "__init__", line_cfg |-> line_cfg,
                            exit_status |-> loaded.exit_status,
                            areas |-> loaded.areas]
            /\ UNCHANGED <<trackerVars, speedVars, pluginVars, overlayVars,
                           pg_call, crowd, crowd_call, idle, idle_call, skip_call,
                       artistVars>>

SpecConfig == Init /\ [][LoadConfig]_vars

\* the polygon A,B,D,C of the lines AB and CD
OrderABDC(c) ==
    PolygonalArea(<<<<c.from[1], c.from[2]>>, <<c.from[3], c.from[4]>>,
                    <<c.to[3], c.to[4]>>, <<c.to[1], c.to[2]>>>>,
                  <<"from", "None", "to", "None">>)

\* the polygon A,B,C,D of the lines AB and CD
OrderABCD(c) ==
    PolygonalArea(<<<<c.from[1], c.from[2]>>, <<c.from[3], c.from[4]>>,
                    <<c.to[1], c.to[2]>>, <<c.to[3], c.to[4]>>>>,
                  <<"from", "None", "to", "None">>)

\* C19: for a source with lines AB and CD the stored area is A,B,D,C when
\* that polygon is not self-intersecting, otherwise A,B,C,D; when both are
\* self-intersecting the process ends with exit status 1 and no area is
\* stored; every stored area is not self-intersecting.
C19_AreaConstruction ==
    cfg_call.op = "__init__" =>
        LET c == cfg_call.line_cfg
        IN  /\ ~is_self_intersecting(OrderABDC(c)) =>
                  /\ cfg_call.exit_status = 0
                  /\ cfg_call.areas = [cam1 |-> OrderABDC(c)]
            /\ (is_self_intersecting(OrderABDC(c)) /\ ~is_self_intersecting(OrderABCD(c))) =>
                  /\ cfg_call.exit_status = 0
                  /\ cfg_call.areas = [cam1 |-> OrderABCD(c)]
            /\ (is_self_intersecting(OrderABDC(c)) /\ is_self_intersecting(OrderABCD(c))) =>
                  /\ cfg_call.exit_status # 0
                  /\ cfg_call.areas = << >>
            /\ \A s \in DOMAIN cfg_call.areas : ~is_self_intersecting(cfg_call.areas[s])

\* lines given in opposite directions: A,B,D,C crosses itself and A,B,C,D is
\* stored
C19_Witness ==
    /\ cfg_call.op = "__init__"
    /\ cfg_call.line_cfg = [from |-> <<0, 0, 10, 0>>, to |-> <<10, 10, 0, 10>>]
    /\ is_self_intersecting(OrderABDC(cfg_call.line_cfg))
    /\ cfg_call.exit_status = 0
    /\ cfg_call.areas.cam1.vertices = <<<<0, 0>>, <<10, 0>>, <<10, 10>>, <<0, 10>>>>

----------------------------------------------------------------------------
(* ConditionalDetectorSkip *)

\* the longest object list of a frame
MaxSkipObjs == 3

SkipObjects ==
    {Primary, Obj("person", 1, <<5, 5>>), Obj("person", 2, <<5, 15>>),
     Obj("car", 3, <<15, 5>>)}

\* object lists with at most one primary object
SkipObjectLists ==
    {objects \in UNION {[1..n -> SkipObjects] : n \in 0..MaxSkipObjs} :
        Cardinality({i \in 1..Len(objects) : objects[i].is_primary}) <= 1}

SkipProcessFrame ==
    \E s \in Sources :
      \E objects \in SkipObjectLists :
        /\ skip_call' = [op |-> "process_frame", source_id |-> s,
                         objects |-> objects, out |-> SkipFrame(objects, s)]
        /\ UNCHANGED <<trackerVars, speedVars, pluginVars, overlayVars,
                       pg_call, crowd, crowd_call, idle, idle_call, cfg_call,
                       artistVars>>

SpecSkip == Init /\ [][SkipProcessFrame]_vars

NotPrimary(obj_meta) == ~obj_meta.is_primary

\* C20: ConditionalDetectorSkip.process_frame removes the primary object
\* iff the frame has one and its source has no crossing lines configured;
\* otherwise the object list is left as it was.
C20_SkipRemovesPrimary ==
    skip_call.op = "process_frame" =>
        IF /\ \E i \in 1..Len(skip_call.objects) : skip_call.objects[i].is_primary
           /\ skip_call.source_id \notin {"cam1", "cam3"}
        THEN skip_call.out = SelectSeq(skip_call.objects, NotPrimary)
        ELSE skip_call.out = skip_call.objects

\* the primary object between two persons, on the source without lines
C20_Witness ==
    /\ skip_call.op = "process_frame"
    /\ skip_call.source_id = "cam2"
    /\ skip_call.objects
          = <<Obj("person", 1, <<5, 5>>), Primary, Obj("person", 2, <<5, 15>>)>>
    /\ skip_call.out = <<Obj("person", 1, <<5, 5>>), Obj("person", 2, <<5, 15>>)>>

----------------------------------------------------------------------------
(* Functions without state: convert_color, build_nvstreammux_config,       *)
(* check_encoder_is_available                                              *)

\* the variables of every other component
otherVars ==
    <<trackerVars, speedVars, pluginVars, overlayVars,
      pg_call, crowd, crowd_call, idle, idle_call, cfg_call, skip_call>>

\* a float channel is k / ColourSteps for k in 0..ColourSteps
ColourSteps == 8

\* int(c * 255) for the channel c = k / ColourSteps: the truncation of the
\* product
Int255(k) == (k * 255) \div ColourSteps

\* convert_color: color is (blue, green, red)
convert_color(color, alpha) ==
    <<Int255(color[3]), Int255(color[2]), Int255(color[1]), alpha>>

Alphas == {0, 255}

ConvertColor ==
    \E b \in 0..ColourSteps, g \in 0..ColourSteps, r \in 0..ColourSteps :
      \E alpha \in Alphas :
        /\ fn_call' = [op |-> "convert_color", color |-> <<b, g, r>>,
                       alpha |-> alpha, ret |-> convert_color(<<b, g, r>>, alpha)]
        /\ UNCHANGED <<otherVars, art, art_call>>

SpecColor == Init /\ [][ConvertColor]_vars

\* C27: convert_color maps each channel c in [0,1] of a (blue, green, red)
\* colour to the integer nearest to c * 255, in 0..255, in the order red,
\* green, blue, followed by the alpha value.
C27_ColourRounded ==
    fn_call.op = "convert_color" =>
        /\ Len(fn_call.ret) = 4
        /\ \A i \in 1..3 :
              /\ fn_call.ret[i] \in 0..255
              /\ 2 * Abs(fn_call.ret[i] * ColourSteps - 255 * fn_call.color[4 - i])
                    <= ColourSteps
        /\ fn_call.ret[4] = fn_call.alpha

----------------------------------------------------------------------------
(* build_nvstreammux_config *)

\* fractions.Fraction(n, d) for positive n and d: kept in lowest terms
Fraction(n, d) == [numerator |-> n \div GCD(n, d), denominator |-> d \div GCD(n, d)]

\* int(b) of a bool
IntOfBool(b) == IF b THEN 1 ELSE 0

\* '\n'.join(lines)
RECURSIVE JoinLines(_)
JoinLines(lines) ==
    IF Len(lines) = 0 THEN ""
    ELSE IF Len(lines) = 1 THEN lines[1]
    ELSE lines[1] \o "\n" \o JoinLines(Tail(lines))

\* the properties dict, in insertion order, as the lines 'k=v'
MuxProperties(batch_size, adaptive_batching, max_fps_control, max_same_source_frames, overall_min_fps, overall_max_fps, algorithm_type) ==
    <<"batch-size=" \o ToString(batch_size),
      "adaptive-batching=" \o ToString(IntOfBool(adaptive_batching)),
      "max-fps-control=" \o ToString(IntOfBool(max_fps_control)),
      "max-same-source-frames=" \o ToString(max_same_source_frames),
      "overall-max-fps-n=" \o ToString(overall_max_fps.numerator),
      "overall-max-fps-d=" \o ToString(overall_max_fps.denominator),
      "overall-min-fps-n=" \o ToString(overall_min_fps.numerator),
      "overall-min-fps-d=" \o ToString(overall_min_fps.denominator),
      "algorithm-type=" \o ToString(algorithm_type)>>

\* the same text with the minimum rate before the maximum rate
build_nvstreammux_config_min_first(batch_size, adaptive_batching, max_fps_control, max_same_source_frames, overall_min_fps, overall_max_fps, algorithm_type) ==
    JoinLines(<<"[property]">> \o
              MuxProperties(batch_size, adaptive_batching, max_fps_control,
                            max_same_source_frames, overall_max_fps,
                            overall_min_fps, algorithm_type))

build_nvstreammux_config(batch_size, adaptive_batching, max_fps_control, max_same_source_frames, overall_min_fps, overall_max_fps, algorithm_type) ==
    JoinLines(<<"[property]">> \o
              MuxProperties(batch_size, adaptive_batching, max_fps_control,
                            max_same_source_frames, overall_min_fps,
                            overall_max_fps, algorithm_type))

\* the largest batch size, frames per source and algorithm type
MaxMux == 2

MinRates == {Fraction(5, 1), Fraction(1, 2), Fraction(10, 4)}

MaxRates == {Fraction(120, 1), Fraction(30, 2), Fraction(25, 10)}

BuildMuxConfig ==
    \E batch_size \in 1..MaxMux, max_same \in 1..MaxMux, algorithm_type \in 1..MaxMux :
      \E adaptive_batching \in BOOLEAN, max_fps_control \in BOOLEAN :
        \E overall_min_fps \in MinRates, overall_max_fps \in MaxRates :
          /\ fn_call' =
                [op |-> "build_nvstreammux_config",
                 batch_size |-> batch_size,
                 adaptive_batching |-> adaptive_batching,
                 max_fps_control |-> max_fps_control,
                 max_same_source_frames |-> max_same,
                 overall_min_fps |-> overall_min_fps,
                 overall_max_fps |-> overall_max_fps,
                 algorithm_type |-> algorithm_type,
                 ret |-> build_nvstreammux_config(batch_size, adaptive_batching,
                             max_fps_control, max_same, overall_min_fps,
                             overall_max_fps, algorithm_type)]
          /\ UNCHANGED <<otherVars, art, art_call>>

SpecMux == Init /\ [][BuildMuxConfig]_vars

\* 0 or 1 for a bool
Bit(b) == IF b THEN "1" ELSE "0"

\* C24: build_nvstreammux_config returns '[property]' and the nine key=value
\* lines in the fixed order, joined by newlines with none at the end, the
\* booleans as 0/1 and each rate as numerator and denominator; with the
\* default arguments it returns the documented default block.
C24_MuxConfigText ==
    fn_call.op = "build_nvstreammux_config" =>
        /\ fn_call.ret =
              "[property]"
              \o "\nbatch-size=" \o ToString(fn_call.batch_size)
              \o "\nadaptive-batching=" \o Bit(fn_call.adaptive_batching)
              \o "\nmax-fps-control=" \o Bit(fn_call.max_fps_control)
              \o "\nmax-same-source-frames=" \o ToString(fn_call.max_same_source_frames)
              \o "\noverall-max-fps-n=" \o ToString(fn_call.overall_max_fps.numerator)
              \o "\noverall-max-fps-d=" \o ToString(fn_call.overall_max_fps.denominator)
              \o "\noverall-min-fps-n=" \o ToString(fn_call.overall_min_fps.numerator)
              \o "\noverall-min-fps-d=" \o ToString(fn_call.overall_min_fps.denominator)
              \o "\nalgorithm-type=" \o ToString(fn_call.algorithm_type)
        /\ (/\ fn_call.batch_size = 1 /\ fn_call.adaptive_batching
            /\ ~fn_call.max_fps_control /\ fn_call.max_same_source_frames = 1
            /\ fn_call.overall_min_fps = [numerator |-> 5, denominator |-> 1]
            /\ fn_call.overall_max_fps = [numerator |-> 120, denominator |-> 1]
            /\ fn_call.algorithm_type = 1) =>
              fn_call.ret = "[property]\nbatch-size=1\nadaptive-batching=1\nmax-fps-control=0\nmax-same-source-frames=1\noverall-max-fps-n=120\noverall-max-fps-d=1\noverall-min-fps-n=5\noverall-min-fps-d=1\nalgorithm-type=1"

\* the call with the default arguments
C24_Witness ==
    /\ fn_call.op = "build_nvstreammux_config"
    /\ fn_call.batch_size = 1 /\ fn_call.adaptive_batching
    /\ ~fn_call.max_fps_control /\ fn_call.max_same_source_frames = 1
    /\ fn_call.overall_min_fps = [numerator |-> 5, denominator |-> 1]
    /\ fn_call.overall_max_fps = [numerator |-> 120, denominator |-> 1]
    /\ fn_call.algorithm_type = 1
    /\ Len(fn_call.ret) = 185

----------------------------------------------------------------------------
(* check_encoder_is_available *)

\* the names of CODEC_BY_NAME
CodecNames == {"h264", "hevc", "jpeg", "png", "raw-rgba"}

\* codec.value.encoder of the two hardware codecs
EncoderOf(codec) == IF codec = "h264" THEN "nvv4l2h264enc" ELSE "nvv4l2h265enc"

\* the five elements of the test pipeline
TestElements(codec) ==
    <<"videotestsrc", "capsfilter", "nvvideoconvert", EncoderOf(codec), "fakesink">>

\* the outcome of a call that built no pipeline
NoPipeline ==
    [ret |-> "True", raised |-> "None", elements |-> << >>, links |-> 0,
     runs |-> 0, sleeps |-> 0]

\* what the host answers: the link that fails (0 for none), how often the
\* runner is found running, and whether the run reported an error
Env(failing_link, polls, error) ==
    [failing_link |-> failing_link, polls |-> polls, error |-> error]

\* the elements are created, added and linked, then the pipeline is run
ProbeEncoder(codec, env) ==
    IF env.failing_link # 0
    THEN [ret |-> "None", raised |-> "AssertionError",
          elements |-> SubSeq(TestElements(codec), 1, env.failing_link + 1),
          links |-> env.failing_link - 1, runs |-> 0, sleeps |-> 0]
    ELSE [ret |-> IF env.error THEN "False" ELSE "True", raised |-> "None",
          elements |-> TestElements(codec), links |-> 4,
          runs |-> 1, sleeps |-> env.polls]

\* the probe taking every finished run for a success
check_encoder_is_available_ignoring_error(parameters, env) ==
    IF \/ "output_frame" \notin DOMAIN parameters
       \/ DOMAIN parameters.output_frame = {}
       \/ parameters.output_frame.codec \notin {"h264", "hevc"}
    THEN NoPipeline
    ELSE ProbeEncoder(parameters.output_frame.codec, Env(env.failing_link, env.polls, FALSE))

check_encoder_is_available(parameters, env) ==
    IF "output_frame" \notin DOMAIN parameters
    THEN NoPipeline
    ELSE IF DOMAIN parameters.output_frame = {}
    THEN NoPipeline
    ELSE IF parameters.output_frame.codec \notin {"h264", "hevc"}
    THEN NoPipeline
    ELSE ProbeEncoder(parameters.output_frame.codec, env)

\* the longest wait for the test run, in polls of the runner
MaxPolls == 2

\* the number of links of the test pipeline
TestLinks == Len(TestElements("h264")) - 1

EncoderParameters ==
    {EmptyMap, [output_frame |-> EmptyMap]}
    \cup {[output_frame |-> [codec |-> c]] : c \in CodecNames}
    \cup {[output_frame |-> [codec |-> c, encoder_params |-> [bitrate |-> 4000000]]] :
              c \in CodecNames}

CheckEncoder ==
    \E parameters \in EncoderParameters :
      \E failing_link \in 0..TestLinks, polls \in 0..MaxPolls, error \in BOOLEAN :
        LET env == Env(failing_link, polls, error)
            out == check_encoder_is_available(parameters, env)
        IN  /\ fn_call' = [op |-> "check_encoder_is_available",
                           parameters |-> parameters, env |-> env, out |-> out]
            /\ UNCHANGED <<otherVars, art, art_call>>

SpecEncoder == Init /\ [][CheckEncoder]_vars

\* the call has an output-frame configuration naming a hardware codec
NamesHardwareCodec(parameters) ==
    /\ "output_frame" \in DOMAIN parameters
    /\ "codec" \in DOMAIN parameters.output_frame
    /\ parameters.output_frame.codec \in {"h264", "hevc"}

\* C25: check_encoder_is_available returns true without building or running
\* a pipeline when there is no output-frame configuration or the codec is
\* not H264 or HEVC; otherwise it runs the test pipeline once, waits until
\* the run has finished and returns false iff the run reported an error; it
\* never raises.
C25_EncoderProbe ==
    fn_call.op = "check_encoder_is_available" =>
        IF ~NamesHardwareCodec(fn_call.parameters)
        THEN /\ fn_call.out.ret = "True"
             /\ fn_call.out.elements = << >>
             /\ fn_call.out.runs = 0
        ELSE /\ fn_call.out.raised = "None"
             /\ fn_call.out.runs = 1
             /\ fn_call.out.sleeps = fn_call.env.polls
             /\ fn_call.out.ret = (IF fn_call.env.error THEN "False" ELSE "True")

\* C25, amended: as above when every link of the test pipeline succeeds; a
\* failing link raises AssertionError before the pipeline is run.
C25_EncoderProbeLinked ==
    fn_call.op = "check_encoder_is_available" =>
        IF ~NamesHardwareCodec(fn_call.parameters)
        THEN /\ fn_call.out.ret = "True"
             /\ fn_call.out.raised = "None"
             /\ fn_call.out.elements = << >>
             /\ fn_call.out.runs = 0
        ELSE IF fn_call.env.failing_link = 0
        THEN /\ fn_call.out.raised = "None"
             /\ Len(fn_call.out.elements) = 5
             /\ fn_call.out.runs = 1
             /\ fn_call.out.sleeps = fn_call.env.polls
             /\ fn_call.out.ret = (IF fn_call.env.error THEN "False" ELSE "True")
        ELSE /\ fn_call.out.raised = "AssertionError"
             /\ fn_call.out.runs = 0

\* the HEVC encoder's test run, found running twice, ends with an error
C25_Witness ==
    /\ fn_call.op = "check_encoder_is_available"
    /\ fn_call.parameters = [output_frame |-> [codec |-> "hevc"]]
    /\ fn_call.env = [failing_link |-> 0, polls |-> 2, error |-> TRUE]
    /\ fn_call.out.ret = "False"
    /\ fn_call.out.elements[4] = "nvv4l2h265enc"

----------------------------------------------------------------------------
(* ArtistGPUMat: a frame buffer and an overlay buffer of the same size are *)
(* maps from pixel positions <<x, y>> to pixels; a pixel is [kind, a, b],   *)
(* the kind naming what wrote it and a, b the position it was taken from.  *)

Pixel(kind, a, b) == [kind |-> kind, a |-> a, b |-> b]

Pixels(w, h) == (0..(w - 1)) \X (0..(h - 1))

\* the frame handed to the artist: every pixel its own
GpuMat(w, h) ==
    [cols |-> w, rows |-> h, px |-> [p \in Pixels(w, h) |-> Pixel("frame", p[1], p[2])]]

\* np.zeros((height, width, 4))
Zeros(w, h) == [p \in Pixels(w, h) |-> Pixel("zero", 0, 0)]

\* drawing of cv2 on a buffer: the pixels of pts that lie in it get the pixel
DrawOn(buffer, pts, pixel) ==
    [p \in DOMAIN buffer |-> IF p \in pts THEN pixel ELSE buffer[p]]

\* cv2.cuda.alphaComp with ALPHA_OVER: a pixel the overlay leaves transparent
\* shows the frame
alphaComp(overlay, frame_px) ==
    [p \in DOMAIN frame_px |-> IF overlay[p].kind = "zero" THEN frame_px[p] ELSE overlay[p]]

\* __init__: calls counts the drawing calls made in the scope, drew tells
\* whether one of them was a call that draws on the overlay
ArtistGPUMat(frame) ==
    [scope |-> "open", frame |-> frame.px,
     width |-> frame.cols, height |-> frame.rows,
     max_col |-> frame.cols - 1, max_row |-> frame.rows - 1,
     overlay_allocated |-> FALSE, overlay |-> << >>,
     gaussian_filter |-> FALSE, stream |-> << >>,
     calls |-> 0, drew |-> FALSE]

\* an exit that does not wait for the stream
exit_without_wait(self) ==
    IF self.overlay_allocated
    THEN [self EXCEPT !.scope = "exited",
                      !.frame = alphaComp(self.overlay, @),
                      !.stream = Append(@, "alphaComp")]
    ELSE [self EXCEPT !.scope = "exited"]

__exit__(self) ==
    IF self.overlay_allocated
    THEN [self EXCEPT !.scope = "exited",
                      !.frame = alphaComp(self.overlay, @),
                      !.stream = @ \o <<"alphaComp", "waitForCompletion">>]
    ELSE [self EXCEPT !.scope = "exited",
                      !.stream = Append(@, "waitForCompletion")]

__init_overlay(self) ==
    IF ~self.overlay_allocated
    THEN [self EXCEPT !.overlay_allocated = TRUE,
                      !.overlay = Zeros(self.width, self.height)]
    ELSE self

__init_gaussian(self) == [self EXCEPT !.gaussian_filter = TRUE]

\* what a drawing call gives: the artist afterwards and how the call ended
Drawn(self, raised, skipped) == [self |-> self, raised |-> raised, skipped |-> skipped]

\* add_text that puts the text on the frame
add_text_on_frame(self, anchor_x, anchor_y) ==
    Drawn([self EXCEPT !.frame = DrawOn(@, {<<anchor_x, anchor_y>>}, Pixel("text", 0, 0))],
          "None", FALSE)

\* add_text with no background and no border: the text is taken to cover the
\* pixel at its anchor
add_text(self, anchor_x, anchor_y) ==
    Drawn([__init_overlay(self) EXCEPT
              !.overlay = DrawOn(@, {<<anchor_x, anchor_y>>}, Pixel("text", 0, 0))],
          "None", FALSE)

\* add_polygon with no background: the outline is taken to cover the vertices
add_polygon(self, vertices) ==
    Drawn([__init_overlay(self) EXCEPT
              !.overlay = DrawOn(@, {vertices[k] : k \in 1..Len(vertices)},
                                 Pixel("line", 0, 0))],
          "None", FALSE)

\* Python's round of n2 / 2: to the nearest integer, a half to the even one
PyRound(n2) ==
    LET q == n2 \div 2
    IN  IF n2 % 2 = 0 THEN q ELSE IF q % 2 = 0 THEN q ELSE q + 1

\* an axis-aligned box, its left, top, width and height given in half pixels
BBox(left2, top2, width2, height2) ==
    [type |-> "BBox", left2 |-> left2, top2 |-> top2,
     width2 |-> width2, height2 |-> height2]

\* a rotated box with angle 0, in whole pixels
RBBox(x_center, y_center, width, height) ==
    [type |-> "RBBox", x_center |-> x_center, y_center |-> y_center,
     width |-> width, height |-> height]

__convert_bbox(self, bbox, padding, border_width) ==
    LET left0 == PyRound(bbox.left2) - padding - border_width
        top0 == PyRound(bbox.top2) - padding - border_width
        width == Max2(PyRound(bbox.width2) + 2 * (padding + border_width), 1)
        height == Max2(PyRound(bbox.height2) + 2 * (padding + border_width), 1)
        left == Max2(left0, 0)
        top == Max2(top0, 0)
        right == Min2(left0 + width, self.max_col)
        bottom == Min2(top0 + height, self.max_row)
    IN  [left |-> left, top |-> top, right |-> right, bottom |-> bottom,
         width |-> right - left, height |-> bottom - top]

\* GpuMat.colRange / rowRange accept the range a..b of n columns or rows
ValidRange(a, b, n) == 0 <= a /\ a <= b /\ b <= n

\* frame.colRange(c1, c2).rowRange(r1, r2).setTo(color, stream): a range the
\* matrix does not have raises cv2.error
setTo(st, region) ==
    IF st.raised # "None" THEN st
    ELSE IF ~ValidRange(region.c1, region.c2, st.self.width)
            \/ ~ValidRange(region.r1, region.r2, st.self.height)
    THEN Drawn(st.self, "cv2.error", FALSE)
    ELSE Drawn([st.self EXCEPT
                   !.frame = DrawOn(@, {p \in DOMAIN @ :
                                           /\ region.c1 <= p[1] /\ p[1] < region.c2
                                           /\ region.r1 <= p[2] /\ p[2] < region.r2},
                                    Pixel(region.color, 0, 0)),
                   !.stream = Append(@, "setTo")],
               "None", FALSE)

RECURSIVE SetRegions(_, _)
SetRegions(st, regions) ==
    IF regions = << >> THEN st
    ELSE SetRegions(setTo(st, Head(regions)), Tail(regions))

Region(c1, c2, r1, r2, color) == [c1 |-> c1, c2 |-> c2, r1 |-> r1, r2 |-> r2, color |-> color]

\* cv2.boxPoints of a box with angle 0: its four corners
boxPoints(x_center, y_center, width, height) ==
    <<<<x_center - width \div 2, y_center + height \div 2>>,
      <<x_center - width \div 2, y_center - height \div 2>>,
      <<x_center + width \div 2, y_center - height \div 2>>,
      <<x_center + width \div 2, y_center + height \div 2>>>>

\* add_bbox; colours are names, "None" for no background
add_bbox(self, bbox, border_width, border_color, bg_color, padding) ==
    IF bbox.type = "BBox"
    THEN LET c == __convert_bbox(self, bbox, padding, border_width)
         IN  SetRegions(Drawn(self, "None", FALSE),
                (IF bg_color # "None"
                 THEN <<Region(c.left, c.right, c.top, c.bottom, bg_color)>>
                 ELSE << >>)
                \o
                (IF border_color # bg_color
                 THEN <<Region(c.left, c.right, c.top, c.top + border_width, border_color),
                        Region(c.left, c.right, c.bottom - border_width, c.bottom, border_color),
                        Region(c.left, c.left + border_width, c.top, c.bottom, border_color),
                        Region(c.right - border_width, c.right, c.top, c.bottom, border_color)>>
                 ELSE << >>))
    ELSE add_polygon(self,
                     boxPoints(bbox.x_center, bbox.y_center,
                               IF padding # 0 THEN bbox.width + 2 * padding ELSE bbox.width,
                               IF padding # 0 THEN bbox.height + 2 * padding ELSE bbox.height))

\* blur: the filter is applied in place to the sub-matrix (left, top, width,
\* height), which cv2 refuses when it is not part of the frame
blur(self, bbox, padding) ==
    LET g == __init_gaussian(self)
        c == __convert_bbox(self, bbox, padding, 0)
    IN  IF /\ 0 <= c.left /\ 0 <= c.width /\ c.left + c.width <= self.width
           /\ 0 <= c.top /\ 0 <= c.height /\ c.top + c.height <= self.height
        THEN Drawn([g EXCEPT
                       !.frame = [p \in DOMAIN @ |->
                                    IF /\ c.left <= p[1] /\ p[1] < c.left + c.width
                                       /\ c.top <= p[2] /\ p[2] < c.top + c.height
                                    THEN Pixel("blur", p[1], p[2]) ELSE @[p]],
                       !.stream = Append(@, "gaussian")],
                   "None", FALSE)
        ELSE Drawn(g, "cv2.error", FALSE)


\* an index of a numpy slice: << >> for None, <<v>> for the integer v
\* the first index of the slice start:stop of an axis of length n
SliceStart(start, n) ==
    IF start = << >> THEN 0
    ELSE IF start[1] < 0 THEN Max2(start[1] + n, 0) ELSE Min2(start[1], n)

\* the index after the last of the slice start:stop of an axis of length n
SliceStop(stop, n) ==
    IF stop = << >> THEN n
    ELSE IF stop[1] < 0 THEN Max2(stop[1] + n, 0) ELSE Min2(stop[1], n)

\* the image handed to add_overlay: pixel (ix, iy) is its own
Image(w, h) == [w |-> w, h |-> h]

\* overlay[dt:db, dl:dr] = img[it:ib, il:ir], the ranges already resolved:
\* numpy copies equal shapes, repeats an axis of length 1, and raises
\* ValueError otherwise
AssignSlice(self, dl, dr, dt, db, il, ir, it, ib) ==
    LET dw == Max2(dr - dl, 0)
        dh == Max2(db - dt, 0)
        sw == Max2(ir - il, 0)
        sh == Max2(ib - it, 0)
    IN  IF (sw = dw \/ sw = 1) /\ (sh = dh \/ sh = 1)
        THEN [self |-> [self EXCEPT
                          !.overlay = [p \in DOMAIN @ |->
                             IF dl <= p[1] /\ p[1] < dr /\ dt <= p[2] /\ p[2] < db
                             THEN Pixel("img",
                                        il + (IF sw = dw THEN p[1] - dl ELSE 0),
                                        it + (IF sh = dh THEN p[2] - dt ELSE 0))
                             ELSE @[p]]],
              raised |-> "None", skipped |-> FALSE,
              dest |-> <<dl, dt, dl + dw, dt + dh>>, src |-> <<sw, sh>>]
        ELSE [self |-> self, raised |-> "ValueError", skipped |-> FALSE,
              dest |-> <<dl, dt, dl + dw, dt + dh>>, src |-> <<sw, sh>>]

\* lines 233-263 of add_overlay, the overlay being there
ClipOverlay(self, img, frame_left, frame_top, img_left, img_top) ==
    LET frame_right == frame_left + img.w
        frame_bottom == frame_top + img.h
        img_right == IF frame_right >= self.width THEN <<self.width - frame_left>> ELSE << >>
        img_bottom == IF frame_bottom >= self.height THEN <<self.height - frame_top>> ELSE << >>
    IN  AssignSlice(self,
                    SliceStart(<<Max2(frame_left, 0)>>, self.width),
                    SliceStop(<<Min2(frame_right, self.width)>>, self.width),
                    SliceStart(<<Max2(frame_top, 0)>>, self.height),
                    SliceStop(<<Min2(frame_bottom, self.height)>>, self.height),
                    SliceStart(img_left, img.w), SliceStop(img_right, img.w),
                    SliceStart(img_top, img.h), SliceStop(img_bottom, img.h))

Skipped(self) ==
    [self |-> self, raised |-> "None", skipped |-> TRUE, dest |-> << >>, src |-> << >>]

\* add_overlay that takes the image from its first column and row
add_overlay_unclipped(self, img, origin) ==
    IF origin[1] >= self.width \/ origin[2] >= self.height THEN Skipped(self)
    ELSE IF origin[1] + img.w < 0 \/ origin[2] + img.h < 0 THEN Skipped(self)
    ELSE ClipOverlay(__init_overlay(self), img, origin[1], origin[2], << >>, << >>)

add_overlay(self, img, origin) ==
    LET frame_left == origin[1]
        frame_top == origin[2]
    IN  IF frame_left >= self.width \/ frame_top >= self.height THEN Skipped(self)
        ELSE IF frame_left + img.w < 0 \/ frame_top + img.h < 0 THEN Skipped(self)
        ELSE ClipOverlay(__init_overlay(self), img, frame_left, frame_top,
                         IF frame_left < 0 THEN <<Abs(frame_left)>> ELSE << >>,
                         IF frame_top < 0 THEN <<Abs(frame_top)>> ELSE << >>)

----------------------------------------------------------------------------
(* One scope of an artist: "with ArtistGPUMat(frame) as artist", drawing   *)
(* calls, and the exit, normal or by an error raised in the scope.  An     *)
(* error raised by a drawing call leaves the scope at once.                *)

\* the side of the frame, in pixels
ArtSide == 3

\* the most drawing calls made in one scope
MaxArtOps == 2

\* the artist after a drawing call that gave r: the call is counted, and an
\* error leaves the scope
Scoped(r, draws) ==
    LET counted == [r.self EXCEPT !.calls = @ + 1, !.drew = @ \/ draws]
    IN  IF r.raised # "None" THEN __exit__(counted) ELSE counted

ArtCall(op, kind, args, r) ==
    [op |-> op, kind |-> kind, args |-> args, raised |-> r.raised, skipped |-> r.skipped]

CanDraw == art.scope = "open" /\ art.calls < MaxArtOps

ArtistEnter ==
    /\ art.scope = "none"
    /\ art' = ArtistGPUMat(GpuMat(ArtSide, ArtSide))
    /\ art_call' = [op |-> "__init__"]
    /\ UNCHANGED <<otherVars, fn_call>>

TextAnchors == {<<0, 0>>, <<1, 1>>}

ArtistAddText ==
    \E anchor \in TextAnchors :
        LET r == add_text(art, anchor[1], anchor[2])
        IN  /\ CanDraw
            /\ art' = Scoped(r, TRUE)
            /\ art_call' = ArtCall("add_text", "", anchor, r)
            /\ UNCHANGED <<otherVars, fn_call>>

Polygons == {<<<<0, 0>>, <<2, 0>>, <<2, 2>>>>, <<<<1, 1>>, <<5, 1>>, <<1, 5>>>>}

ArtistAddPolygon ==
    \E vertices \in Polygons :
        LET r == add_polygon(art, vertices)
        IN  /\ CanDraw
            /\ art' = Scoped(r, TRUE)
            /\ art_call' = ArtCall("add_polygon", "", vertices, r)
            /\ UNCHANGED <<otherVars, fn_call>>

\* boxes inside the frame (whole and half coordinates), right of it, and
\* sticking out to the left
BBoxes == {BBox(0, 0, 4, 4), BBox(1, 1, 3, 3), BBox(10, 0, 2, 2), BBox(-4, 2, 4, 2)}

RBBoxes == {RBBox(1, 1, 2, 2)}

BorderWidths == {0, 1}

Paddings == {0, 1}

BgColors == {"None", "red", "green"}

ArtistAddBBox ==
    \E bbox \in BBoxes \cup RBBoxes :
      \E border_width \in BorderWidths, bg_color \in BgColors :
        LET r == add_bbox(art, bbox, border_width, "green", bg_color, 0)
        IN  /\ CanDraw
            /\ art' = Scoped(r, bbox.type = "RBBox")
            /\ art_call' = ArtCall("add_bbox", bbox.type, bbox, r)
            /\ UNCHANGED <<otherVars, fn_call>>

ArtistBlur ==
    \E bbox \in BBoxes :
      \E padding \in Paddings :
        LET r == blur(art, bbox, padding)
        IN  /\ CanDraw
            /\ art' = Scoped(r, FALSE)
            /\ art_call' = ArtCall("blur", bbox.type, bbox, r)
            /\ UNCHANGED <<otherVars, fn_call>>

Images == {Image(1, 1), Image(2, 2)}

Origins == {<<0, 0>>, <<-2, 0>>, <<2, 2>>, <<3, 0>>, <<0, -3>>}

ArtistAddOverlay ==
    \E img \in Images :
      \E origin \in Origins :
        LET r == add_overlay(art, img, origin)
        IN  /\ CanDraw
            /\ art' = Scoped(r, ~r.skipped)
            /\ art_call' = ArtCall("add_overlay", "", origin, r)
            /\ UNCHANGED <<otherVars, fn_call>>

\* the scope ends, normally or by an error raised in its body
ArtistExit ==
    \E exc \in {"None", "Exception"} :
        /\ art.scope = "open"
        /\ art' = __exit__(art)
        /\ art_call' = [op |-> "__exit__", kind |-> "", args |-> << >>,
                        raised |-> exc, skipped |-> FALSE]
        /\ UNCHANGED <<otherVars, fn_call>>

ArtistNext ==
    \/ ArtistEnter
    \/ ArtistAddText
    \/ ArtistAddPolygon
    \/ ArtistAddBBox
    \/ ArtistBlur
    \/ ArtistAddOverlay
    \/ ArtistExit

SpecArtist == Init /\ [][ArtistNext]_vars


----------------------------------------------------------------------------
(* Images laid over frames of every small size, at every origin around     *)
(* the frame, on a fresh overlay or on one a text was drawn on.            *)

\* the longest side of a frame
MaxSide == 2

\* the longest side of an image
MaxImg == 3

ArtistEnterSized ==
    \E w \in 1..MaxSide, h \in 1..MaxSide :
        /\ art.scope = "none"
        /\ art' = ArtistGPUMat(GpuMat(w, h))
        /\ art_call' = [op |-> "__init__"]
        /\ UNCHANGED <<otherVars, fn_call>>

ArtistAddTextFirst ==
    \E anchor \in TextAnchors :
        LET r == add_text(art, anchor[1], anchor[2])
        IN  /\ art.scope = "open" /\ art.calls = 0
            /\ art' = Scoped(r, TRUE)
            /\ art_call' = ArtCall("add_text", "", anchor, r)
            /\ UNCHANGED <<otherVars, fn_call>>

ArtistAddImage ==
    \E w \in 1..MaxImg, h \in 1..MaxImg :
      \E x \in -(MaxImg + 1)..(MaxSide + 1), y \in -(MaxImg + 1)..(MaxSide + 1) :
        LET r == add_overlay(art, Image(w, h), <<x, y>>)
        IN  /\ art.scope = "open" /\ art.calls <= 1 /\ art_call.op # "add_overlay"
            /\ art' = Scoped(r, ~r.skipped)
            /\ art_call' = [op |-> "add_overlay", img |-> Image(w, h), origin |-> <<x, y>>,
                            raised |-> r.raised, skipped |-> r.skipped,
                            dest |-> r.dest, src |-> r.src]
            /\ UNCHANGED <<otherVars, fn_call>>

ImageNext ==
    \/ ArtistEnterSized
    \/ ArtistAddTextFirst
    \/ ArtistAddImage

SpecImage == Init /\ [][ImageNext]_vars

\* the image rectangle of the call has a pixel in common with the frame,
\* horizontally and vertically
CommonColumns(call, self) ==
    call.origin[1] < self.width /\ call.origin[1] + call.img.w > 0

CommonRows(call, self) ==
    call.origin[2] < self.height /\ call.origin[2] + call.img.h > 0

InImage(call, p) ==
    /\ call.origin[1] <= p[1] /\ p[1] < call.origin[1] + call.img.w
    /\ call.origin[2] <= p[2] /\ p[2] < call.origin[2] + call.img.h

\* C22: add_overlay is a no-op, the overlay neither allocated nor changed,
\* when the image rectangle has no pixel in common with the frame
\* horizontally or vertically.
C22_DisjointImageIsNoOp ==
    [][(art_call'.op = "add_overlay"
        /\ ~(CommonColumns(art_call', art) /\ CommonRows(art_call', art)))
       => /\ art'.overlay_allocated = art.overlay_allocated
          /\ art'.overlay = art.overlay]_vars

\* C23: for an image that overlaps the frame in part or in whole, add_overlay
\* writes the intersection of the image rectangle and the frame, reads a
\* source range of the same width and height, and every frame pixel (x, y)
\* of the image rectangle gets image pixel (x - origin_x, y - origin_y) in
\* place of what the overlay held; the other overlay pixels keep theirs.
C23_ClippedCopy ==
    [][(art_call'.op = "add_overlay"
        /\ CommonColumns(art_call', art) /\ CommonRows(art_call', art))
       => LET call == art_call'
              before == __init_overlay(art).overlay
          IN  /\ call.raised = "None" /\ ~call.skipped
              /\ art'.scope = "open" /\ art'.overlay_allocated
              /\ call.dest = <<Max2(call.origin[1], 0), Max2(call.origin[2], 0),
                               Min2(call.origin[1] + call.img.w, art.width),
                               Min2(call.origin[2] + call.img.h, art.height)>>
              /\ call.src = <<call.dest[3] - call.dest[1], call.dest[4] - call.dest[2]>>
              /\ \A p \in Pixels(art.width, art.height) :
                    art'.overlay[p] =
                        IF InImage(call, p)
                        THEN Pixel("img", p[1] - call.origin[1], p[2] - call.origin[2])
                        ELSE before[p]
              /\ art'.frame = art.frame]_vars

\* an image sticking out of a 2 x 2 frame at its left and top, laid over a
\* drawn text
C23_Witness ==
    /\ art_call.op = "add_overlay"
    /\ art.width = 2 /\ art.height = 2
    /\ art_call.img = Image(2, 3) /\ art_call.origin = <<-1, -2>>
    /\ art_call.dest = <<0, 0, 1, 1>>
    /\ art.calls = 2
    /\ art.overlay[<<0, 0>>] = Pixel("img", 1, 2)
    /\ art.overlay[<<1, 1>>].kind = "text"


----------------------------------------------------------------------------
(* The scope of an artist: its exit and its two buffers.                   *)

\* how many operations of the stream are op
Queued(stream, op) == Cardinality({k \in 1..Len(stream) : stream[k] = op})

\* C21: on every exit of the scope, normal or by an error raised inside it,
\* the overlay is alpha-composited onto the frame exactly once iff an
\* overlay buffer was allocated during the scope, and the wait for
\* completion of the queued operations always happens, after that
\* composition.
C21_ScopedExit ==
    /\ [](art.scope = "exited"
          => LET n == Len(art.stream)
             IN  /\ n >= 1
                 /\ art.stream[n] = "waitForCompletion"
                 /\ Queued(art.stream, "waitForCompletion") = 1
                 /\ Queued(art.stream, "alphaComp") = IF art.overlay_allocated THEN 1 ELSE 0
                 /\ art.overlay_allocated => art.stream[n - 1] = "alphaComp")
    /\ [][art_call'.op = "__exit__"
          => art'.frame = IF art.overlay_allocated
                          THEN alphaComp(art.overlay, art.frame)
                          ELSE art.frame]_vars

\* a box right of the frame made add_bbox raise after a text was drawn: the
\* scope was left with the text composited onto the frame
C21_Witness ==
    /\ art.scope = "exited"
    /\ art_call.op = "add_bbox" /\ art_call.raised = "cv2.error"
    /\ art.overlay_allocated
    /\ art.frame[<<1, 1>>].kind = "text"
    /\ art.stream = <<"alphaComp", "waitForCompletion">>

\* the calls that draw on the overlay, and the calls that write the frame
OnOverlay(call) ==
    \/ call.op \in {"add_text", "add_polygon", "add_overlay"}
    \/ call.op = "add_bbox" /\ call.kind = "RBBox"

OnFrame(call) ==
    \/ call.op = "blur"
    \/ call.op = "add_bbox" /\ call.kind = "BBox"

\* C30: within one scope the overlay is unallocated until the first
\* add_text, add_polygon, rotated-box add_bbox or non-skipped add_overlay
\* and stays allocated from then on; axis-aligned add_bbox and blur never
\* allocate or modify the overlay and write only to the frame, while the
\* other calls write only to the overlay and leave the frame unchanged
\* until the scope exits.
C30_OverlayLifecycle ==
    /\ [](art.scope # "none" => (art.overlay_allocated <=> art.drew))
    /\ [][art.scope = "open"
          => /\ art.overlay_allocated => art'.overlay_allocated
             /\ OnFrame(art_call')
                  => /\ art'.overlay_allocated = art.overlay_allocated
                     /\ art'.overlay = art.overlay
             /\ (OnOverlay(art_call') /\ art'.scope = "open")
                  => /\ art'.frame = art.frame
                     /\ art'.stream = art.stream
                     /\ art'.overlay_allocated <=> (art.overlay_allocated \/ ~art_call'.skipped)
                     /\ art_call'.skipped => art'.overlay = art.overlay]_vars

\* a text drawn after a box was filled: the box is on the frame, the text
\* on the overlay only
C30_Witness ==
    /\ art.scope = "open" /\ art.calls = 2
    /\ art_call.op = "add_text"
    /\ art.overlay_allocated
    /\ art.overlay[<<1, 1>>].kind = "text"
    /\ art.frame[<<1, 1>>].kind = "red"


----------------------------------------------------------------------------
(* The conversion of a box to a pixel rectangle, for boxes in, across and  *)
(* outside frames of every small size.                                     *)

\* the farthest left or top of a box, and its greatest width or height, in
\* half pixels
MaxBox == 4

ConvertBBox ==
    /\ art.scope = "open" /\ fn_call.op = "init"
    /\ \E left2 \in -MaxBox..MaxBox, top2 \in -MaxBox..MaxBox :
         \E width2 \in 0..MaxBox, height2 \in 0..MaxBox :
           \E padding \in Paddings, border_width \in BorderWidths :
              fn_call' = [op |-> "__convert_bbox",
                          bbox |-> BBox(left2, top2, width2, height2),
                          padding |-> padding, border_width |-> border_width,
                          ret |-> __convert_bbox(art, BBox(left2, top2, width2, height2),
                                                 padding, border_width)]
    /\ UNCHANGED <<otherVars, art, art_call>>

BBoxNext ==
    \/ ArtistEnterSized
    \/ ConvertBBox

SpecBBox == Init /\ [][BBoxNext]_vars

\* C31: the conversion returns frame-clamped extents for every box, padding
\* and border width: 0 <= left <= right <= max column and 0 <= top <= bottom
\* <= max row, so the returned width and height are never negative and the
\* column and row ranges add_bbox and blur derive from it lie in the frame.
C31_ClampedExtents ==
    fn_call.op = "__convert_bbox"
    => LET c == fn_call.ret
           b == fn_call.border_width
       IN  /\ 0 <= c.left /\ c.left <= c.right /\ c.right <= art.max_col
           /\ 0 <= c.top /\ c.top <= c.bottom /\ c.bottom <= art.max_row
           /\ c.width >= 0 /\ c.height >= 0
           /\ ValidRange(c.left, c.right, art.width)
           /\ ValidRange(c.top, c.bottom, art.height)
           /\ ValidRange(c.top, c.top + b, art.height)
           /\ ValidRange(c.bottom - b, c.bottom, art.height)
           /\ ValidRange(c.left, c.left + b, art.width)
           /\ ValidRange(c.right - b, c.right, art.width)


----------------------------------------------------------------------------
(* Claims on the plugin's state across frames and streams *)

\* C34: after every process_frame call that ran the analytics the source's
\* crowd accumulator is empty, so no point carries over to the next frame,
\* and is_crowded on the primary object is 1 iff the number of objects
\* accepted in this frame is at least the source's crowd threshold, else 0.
C34_CrowdPerFrame ==
    /\ \A s \in DOMAIN lc.crowd_trackers : lc.crowd_trackers[s].people_coordinates = << >>
    /\ (lc_call.op = "process_frame" /\ lc_call.out.outcome = "analysed")
       => /\ lc_call.source_id \in DOMAIN lc.crowd_trackers
          /\ lc_call.out.primary_attrs.is_crowded =
                IF Len(lc_call.out.accepted)
                     >= calib_config[lc_call.source_id].crowd.crowd_threshold
                THEN 1 ELSE 0

\* track 1 accepted on the third frame in a row, alone: three points were
\* fed since the stream began, and the frame is not crowded
C34_Witness ==
    /\ lc_call.op = "process_frame"
    /\ lc_call.out.outcome = "analysed"
    /\ lc_call.frame_num = 2
    /\ lc_call.out.accepted = <<1>>
    /\ Len(HistoryOf(lc.idle_trackers, "cam1", 1)) = 3
    /\ lc_call.out.primary_attrs.is_crowded = 0
    /\ lc.crowd_trackers.cam1.people_coordinates = << >>

\* two objects accepted in one frame: crowded
C34_WitnessCrowded ==
    /\ lc_call.op = "process_frame"
    /\ lc_call.out.outcome = "analysed"
    /\ Len(lc_call.out.accepted) = 2
    /\ lc_call.out.primary_attrs.is_crowded = 1


----------------------------------------------------------------------------
(* Streams long enough for tracks to go stale, of a source with lines and  *)
(* calibration next to sources without, ended and begun again at any time. *)

\* the number of the last frame of a stream of cam1
MaxStreamFrame == 4

\* a frame without primary object, or track 1 on either side of the lines
StreamFrameObjects ==
    {<< >>} \cup {<<Primary, Obj("person", 1, p)>> : p \in {<<5, -5>>, <<5, 15>>}}

StreamFrame ==
    \E objects \in StreamFrameObjects :
        LET frame == Frame("cam1", frame_no.cam1, objects)
        IN  /\ frame_no.cam1 <= MaxStreamFrame
            /\ Called(frame, process_frame(lc, frame, frame.frame_num))
            /\ frame_no' = [frame_no EXCEPT !.cam1 = @ + 1]
            /\ UNCHANGED <<trackerVars, speedVars, overlayVars, restVars>>

StreamOtherFrame ==
    \E s \in Sources \ {"cam1"} :
      \E objects \in OtherFrameObjects :
        LET frame == Frame(s, frame_no[s], objects)
        IN  /\ frame_no[s] <= MaxOtherFrame
            /\ Called(frame, process_frame(lc, frame, frame.frame_num))
            /\ frame_no' = [frame_no EXCEPT ![s] = @ + 1]
            /\ UNCHANGED <<trackerVars, speedVars, overlayVars, restVars>>

StreamsNext == StreamFrame \/ StreamOtherFrame \/ SourceEos

SpecStreams == Init /\ [][StreamsNext]_vars

\* the tracks the last-seen map of the source holds
SeenTracks(self, s) == DOMAIN GetD(self.track_last_frame_num, s, EmptyMap)

\* C35: whenever the last-seen map of a source holds at least one track a
\* crossing tracker exists for that source, so that the lookup of the
\* source's crossing tracker by the stale-track cleanup never fails: a call
\* raises KeyError only for want of the source's calibration.
C35_SeenImpliesTracker ==
    /\ \A s \in Sources : SeenTracks(lc, s) # {} => s \in DOMAIN lc.lc_trackers
    /\ (lc_call.op = "process_frame" /\ lc_call.out.outcome = "KeyError")
       => /\ lc_call.source_id \in DOMAIN areas
          /\ lc_call.source_id \notin DOMAIN calib_config
          /\ CallHasPrimary(lc_call)

\* a frame of cam1 without primary object whose cleanup removed track 1,
\* while cam3 holds a crossing tracker and no last-seen track
C35_Witness ==
    /\ lc_call.op = "process_frame"
    /\ lc_call.source_id = "cam1"
    /\ lc_call.objects = << >>
    /\ lc_call.out.removed = {1}
    /\ "cam1" \in DOMAIN lc.lc_trackers
    /\ "cam3" \in DOMAIN lc.lc_trackers
    /\ SeenTracks(lc, "cam3") = {}


\* how many events of the direction the logs of the tracks hold
RECURSIVE Logged(_, _, _)
Logged(logs, tracks, direction) ==
    IF tracks = {} THEN 0
    ELSE LET t == CHOOSE x \in tracks : TRUE
         IN  Cardinality({k \in 1..Len(logs[t]) : logs[t][k][1] = direction})
             + Logged(logs, tracks \ {t}, direction)

EventsOf(self, s, direction) ==
    LET logs == GetD(self.cross_events, s, EmptyMap)
    IN  Logged(logs, DOMAIN logs, direction)

\* C32: for each source the entry counter equals the number of 'entry'
\* events in the event logs of the source's tracks and the exit counter the
\* number of 'exit' events; the counters never decrease but at an end of
\* stream of the source, and the stale-track cleanup changes neither the
\* counters nor the logs.
C32_CountersMatchLogs ==
    /\ [](\A s \in Sources :
            /\ CountOf(lc.entry_count, s) = EventsOf(lc, s, "entry")
            /\ CountOf(lc.exit_count, s) = EventsOf(lc, s, "exit"))
    /\ [][\A s \in Sources :
            /\ ~(lc_call'.op = "on_source_eos" /\ lc_call'.source_id = s)
                 => /\ CountOf(lc'.entry_count, s) >= CountOf(lc.entry_count, s)
                    /\ CountOf(lc'.exit_count, s) >= CountOf(lc.exit_count, s)
            /\ (lc_call'.op = "process_frame" /\ lc_call'.source_id = s
                  /\ lc_call'.out.removed # {})
                 => /\ CountOf(lc'.entry_count, s)
                         = CountOf(lc.entry_count, s) + Detected(lc_call'.out.dirs, "entry")
                    /\ CountOf(lc'.exit_count, s)
                         = CountOf(lc.exit_count, s) + Detected(lc_call'.out.dirs, "exit")
                    /\ \A t \in lc_call'.out.removed : LogOf(lc', s, t) = LogOf(lc, s, t)
                    /\ lc_call'.out.outcome = "skipped"
                         => GetD(lc'.cross_events, s, EmptyMap)
                               = GetD(lc.cross_events, s, EmptyMap)]_vars

\* track 1 entered on frame 1 and was not seen again: the cleanup of frame 4
\* removed it, its log and the two counters are as before
C32_Witness ==
    /\ lc_call.op = "process_frame"
    /\ lc_call.source_id = "cam1"
    /\ lc_call.frame_num = 4
    /\ lc_call.out.removed = {1}
    /\ LogOf(lc, "cam1", 1) = <<<<"entry", 40>>>>
    /\ lc.entry_count.cam1 = 1
    /\ lc.exit_count.cam1 = 0

\* an 'exit' after an 'entry' of the same track
C32_WitnessExit ==
    /\ lc_call.op = "process_frame"
    /\ LogOf(lc, "cam1", 1) = <<<<"entry", 40>>, <<"exit", 80>>>>
    /\ lc.entry_count.cam1 = 1
    /\ lc.exit_count.cam1 = 1


----------------------------------------------------------------------------
(* A source that keeps delivering frames, numbered consecutively, with or  *)
(* without primary object, on which two tracks come and go.                *)

\* the number of the last frame of the stream
MaxEvictFrame == 6

EvictFrameObjects ==
    {<< >>, <<Primary>>}
    \cup {<<Primary, Obj("person", t, <<5, 5>>)>> : t \in Tracks}

EvictFrame ==
    \E objects \in EvictFrameObjects :
        LET frame == Frame("cam1", frame_no.cam1, objects)
        IN  /\ frame_no.cam1 <= MaxEvictFrame
            /\ Called(frame, process_frame(lc, frame, frame.frame_num))
            /\ frame_no' = [frame_no EXCEPT !.cam1 = @ + 1]
            /\ UNCHANGED <<trackerVars, speedVars, overlayVars, restVars>>

\* the framework delivers the next frame of the stream
SpecEvict == Init /\ [][EvictFrame]_vars /\ WF_vars(EvictFrame)

\* the tracks the crossing tracker of the source holds a window for
WindowTracks(self, s) ==
    IF s \in DOMAIN self.lc_trackers
    THEN DOMAIN self.lc_trackers[s].track_last_points ELSE {}

\* C33: while the source keeps delivering frames with consecutive numbers, a
\* track last accepted at frame L and not accepted again is removed from the
\* last-seen map and from the crossing tracker no later than frame
\* L + 2 * stale_track_del_period.
C33_StaleEvicted ==
    /\ [](lc_call.op = "process_frame"
          => /\ \A t \in SeenTracks(lc, "cam1") :
                   lc_call.frame_num - lc.track_last_frame_num.cam1[t]
                       < 2 * stale_track_del_period
             /\ WindowTracks(lc, "cam1") = SeenTracks(lc, "cam1"))
    /\ \A t \in Tracks :
         \A L \in 0..(MaxEvictFrame - 2 * stale_track_del_period) :
            (LastSeenOf(lc, "cam1", t) = <<L>>)
                ~> (t \notin SeenTracks(lc, "cam1") \cup WindowTracks(lc, "cam1")
                    \/ LastSeenOf(lc, "cam1", t) # <<L>>)

\* track 1, last accepted at frame 2 (the time of its last speed sample), is
\* removed by frame 6 and not before
C33_Witness ==
    /\ lc_call.op = "process_frame"
    /\ lc_call.frame_num = 6
    /\ lc_call.out.removed = {1}
    /\ 1 \notin SeenTracks(lc, "cam1") \cup WindowTracks(lc, "cam1")
    /\ LET h == HistoryOf(lc.speed_estimators, "cam1", 1)
       IN  h # << >> /\ h[Len(h)][3] = 2

====
